---- MODULE Spec2Model ----
(***************************************************************************)
(* Verification model of the pbrtrs light-transport core: the piecewise-   *)
(* constant Distribution1D sampler, the power heuristic, the BSDF          *)
(* aggregate (shading frame, pdf, sample_f) and the ray_color path         *)
(* integrator.  Scalars (f32) are modelled as exact rationals <<num, den>> *)
(* extended with the IEEE values NaN = <<0,0>> and +-Inf = <<+-1,0>>.      *)
(***************************************************************************)
EXTENDS Integers, Sequences, FiniteSets, TLC

VARIABLES dist, dsample, ph, hit, bsdf, bcall,
          pc, bounce_count, radiance, beta, specular_bounce, scene, last,
          ray, shape_hits, nearest, intersections,
          lsample, tiler, harness

vars == <<dist, dsample, ph, hit, bsdf, bcall,
          pc, bounce_count, radiance, beta, specular_bounce, scene, last,
          ray, shape_hits, nearest, intersections,
          lsample, tiler, harness>>

distVars == <<dist, dsample>>
bsdfVars == <<hit, bsdf, bcall>>
pathVars == <<pc, bounce_count, radiance, beta, specular_bounce, scene, last,
              ray, shape_hits, nearest, intersections>>
renderVars == <<lsample, tiler, harness>>

Idle == "idle"

\* ------------------------------------------------------------------------
\* Scalar arithmetic
\* ------------------------------------------------------------------------
Abs(x) == IF x < 0 THEN -x ELSE x


RECURSIVE Gcd(_, _)
Gcd(a, b) == IF b = 0 THEN a ELSE Gcd(b, a % b)

Norm(n, d) ==
    IF d = 0 THEN <<(IF n < 0 THEN -1 ELSE IF n > 0 THEN 1 ELSE 0), 0>>
    ELSE LET g == Gcd(Abs(n), Abs(d))
             s == IF d < 0 THEN -1 ELSE 1
         IN  <<(s * n) \div g, (s * d) \div g>>

R(n, d) == Norm(n, d)
I(n) == <<n, 1>>
Zero == <<0, 1>>
One == <<1, 1>>
NaN == <<0, 0>>

IsNaN(a) == a = NaN

RAdd(a, b) ==
    IF a[2] = 0 \/ b[2] = 0
    THEN IF IsNaN(a) \/ IsNaN(b) THEN NaN
         ELSE IF a[2] = 0 /\ b[2] = 0 THEN (IF a = b THEN a ELSE NaN)
         ELSE IF a[2] = 0 THEN a ELSE b
    ELSE Norm(a[1] * b[2] + b[1] * a[2], a[2] * b[2])

RNeg(a) == <<-a[1], a[2]>>
RSub(a, b) == RAdd(a, RNeg(b))
RMul(a, b) == Norm(a[1] * b[1], a[2] * b[2])
RDiv(a, b) == Norm(a[1] * b[2], a[2] * b[1])
RAbs(a) == <<Abs(a[1]), a[2]>>

REq(a, b) == ~IsNaN(a) /\ a = b
RLt(a, b) == ~IsNaN(a) /\ ~IsNaN(b) /\ a # b /\ a[1] * b[2] < b[1] * a[2]
RLe(a, b) == ~IsNaN(a) /\ ~IsNaN(b) /\ (a = b \/ a[1] * b[2] < b[1] * a[2])
RGt(a, b) == RLt(b, a)
RMax(a, b) == IF RLt(a, b) THEN b ELSE a

\* floor of a finite rational, as an integer
RFloor(a) == a[1] \div a[2]

\* rounding of an accumulated f32 result: the path integrator's running
\* products and sums keep multiples of 1/Quantum
Quantum == 64
Quantize(a) ==
    IF a[2] = 0 THEN a ELSE R((2 * a[1] * Quantum + a[2]) \div (2 * a[2]), Quantum)

\* ------------------------------------------------------------------------
\* Vectors, colours and kind bitfields
\* ------------------------------------------------------------------------
SqrtScale == 1000

RECURSIVE ISqrtSearch(_, _, _)
ISqrtSearch(n, lo, hi) ==
    IF lo >= hi THEN lo
    ELSE LET mid == (lo + hi + 1) \div 2
         IN  IF mid * mid <= n THEN ISqrtSearch(n, mid, hi)
             ELSE ISqrtSearch(n, lo, mid - 1)

\* floor of the integer square root (n < 2^31)
ISqrt(n) == ISqrtSearch(n, 0, IF n > 46340 THEN 46340 ELSE n)

\* f32::sqrt: exact on squares of rationals, otherwise rounded down to a
\* multiple of 1/SqrtScale; NaN for negative arguments
RSqrt(a) ==
    IF a[2] = 0 THEN (IF a[1] > 0 THEN a ELSE NaN)
    ELSE IF a[1] < 0 THEN NaN
    ELSE IF ISqrt(a[1]) * ISqrt(a[1]) = a[1] /\ ISqrt(a[2]) * ISqrt(a[2]) = a[2]
         THEN R(ISqrt(a[1]), ISqrt(a[2]))
    ELSE R(ISqrt((a[1] * SqrtScale * SqrtScale) \div a[2]), SqrtScale)

vec3(x, y, z) == <<x, y, z>>
VZero == vec3(Zero, Zero, Zero)
VDot(a, b) == RAdd(RAdd(RMul(a[1], b[1]), RMul(a[2], b[2])), RMul(a[3], b[3]))
VCross(a, b) ==
    vec3(RSub(RMul(a[2], b[3]), RMul(a[3], b[2])),
         RSub(RMul(a[3], b[1]), RMul(a[1], b[3])),
         RSub(RMul(a[1], b[2]), RMul(a[2], b[1])))
VScale(s, v) == vec3(RMul(s, v[1]), RMul(s, v[2]), RMul(s, v[3]))
VAdd(a, b) == vec3(RAdd(a[1], b[1]), RAdd(a[2], b[2]), RAdd(a[3], b[3]))
VNeg(v) == vec3(RNeg(v[1]), RNeg(v[2]), RNeg(v[3]))
VNormalize(v) ==
    LET magnitude == RSqrt(VDot(v, v))
    IN  vec3(RDiv(v[1], magnitude), RDiv(v[2], magnitude), RDiv(v[3], magnitude))

color(r, g, b) == <<r, g, b>>
BLACK == color(Zero, Zero, Zero)
WHITE == color(One, One, One)
CAdd(a, b) == color(RAdd(a[1], b[1]), RAdd(a[2], b[2]), RAdd(a[3], b[3]))
CMul(a, b) == color(RMul(a[1], b[1]), RMul(a[2], b[2]), RMul(a[3], b[3]))
CScale(a, s) == color(RMul(a[1], s), RMul(a[2], s), RMul(a[3], s))
CDivS(a, s) == color(RDiv(a[1], s), RDiv(a[2], s), RDiv(a[3], s))
CQuantize(c) == <<Quantize(c[1]), Quantize(c[2]), Quantize(c[3])>>
\* Color == BLACK under float comparison (a NaN component is never equal)
CIsBlack(c) == REq(c[1], Zero) /\ REq(c[2], Zero) /\ REq(c[3], Zero)

RECURSIVE BitAnd(_, _)
BitAnd(a, b) ==
    IF a = 0 \/ b = 0 THEN 0
    ELSE (a % 2) * (b % 2) + 2 * BitAnd(a \div 2, b \div 2)

RECURSIVE BitOr(_, _)
BitOr(a, b) ==
    IF a = 0 THEN b
    ELSE IF b = 0 THEN a
    ELSE (IF a % 2 = 1 \/ b % 2 = 1 THEN 1 ELSE 0) + 2 * BitOr(a \div 2, b \div 2)

REFLECTION == 1
TRANSMISSION == 2
DIFFUSE == 4
GLOSSY == 8
SPECULAR == 16

set(self, other) == BitOr(self, other)
\* self & !other on the u8 representation
unset(self, other) == BitAnd(self, 255 - other)
has(self, other) == BitAnd(self, other) # 0
matches_any_common_bit(self, other) == BitAnd(self, other) # 0

\* (self.0 & other.0) == self.0
matches(self, other) == BitAnd(self, other) = self

ALL == set(set(set(set(DIFFUSE, GLOSSY), SPECULAR), REFLECTION), TRANSMISSION)

\* ------------------------------------------------------------------------
\* BxDF terms.  A term is a record [type, color, scale, alpha, r0, eta_b].
\* The microfacet D, G and pdf integrands and the Fresnel curves are opaque
\* here: they are represented by the fixed values MicrofacetDG, MicrofacetPdf
\* and by the normal-incidence reflectance of the term.
\* ------------------------------------------------------------------------
PI == R(22, 7)
MicrofacetDG == One
MicrofacetPdf == R(1, 2)
FresnelDielectricF == R(1, 4)

cos_theta(w) == w[3]
abs_cos_theta(w) == RAbs(cos_theta(w))
same_hemisphere(w, other) == RGt(RMul(w[3], other[3]), Zero)

reflect(vec, reflector) ==
    VAdd(VNeg(vec), VScale(RMul(I(2), VDot(vec, reflector)), reflector))

faceforward(n, v) == IF RLt(VDot(n, v), Zero) THEN VNeg(n) ELSE n

\* Option<Vec3>: <<>> is None, <<v>> is Some(v)
refract(wi, normal, eta) ==
    LET cos_theta_i == VDot(normal, wi)
        sin2_theta_i == RMax(RSub(One, RMul(cos_theta_i, cos_theta_i)), Zero)
        sin2_theta_t == RMul(RMul(eta, eta), sin2_theta_i)
    IN  IF RLe(One, sin2_theta_t) THEN <<>>
        ELSE LET cos_theta_t == RSqrt(RSub(One, sin2_theta_t))
             IN  <<VAdd(VScale(eta, VNeg(wi)),
                        VScale(RSub(RMul(eta, cos_theta_i), cos_theta_t), normal))>>

TrowbridgeReitzDistribution_new(alpha) ==
    <<RMax(alpha[1], R(1, 1000)), RMax(alpha[2], R(1, 1000))>>

is_specular(alpha) == RLt(alpha[1], R(4, 100)) /\ RLt(alpha[2], R(4, 100))

Lambertian(c, scale) ==
    [type |-> "Lambertian", color |-> c, scale |-> scale,
     alpha |-> <<Zero, Zero>>, r0 |-> BLACK, eta_b |-> One]

TransmissionSpecular(c, ior) ==
    [type |-> "TransmissionSpecular", color |-> c, scale |-> One,
     alpha |-> <<Zero, Zero>>, r0 |-> BLACK, eta_b |-> ior]

MicrofacetReflection(c, distribution, fresnel) ==
    [type |-> "MicrofacetReflection", color |-> c, scale |-> One,
     alpha |-> distribution, r0 |-> fresnel, eta_b |-> One]

kind(t) ==
    CASE t.type = "Lambertian" -> set(DIFFUSE, REFLECTION)
      [] t.type = "TransmissionSpecular" -> set(TRANSMISSION, SPECULAR)
      [] t.type = "MicrofacetReflection" ->
            IF is_specular(t.alpha)
            THEN set(set(REFLECTION, GLOSSY), SPECULAR)
            ELSE set(REFLECTION, GLOSSY)

BxDF_f(t, wo, wi) ==
    CASE t.type = "Lambertian" -> CScale(CDivS(t.color, PI), t.scale)
      [] t.type = "TransmissionSpecular" -> BLACK
      [] t.type = "MicrofacetReflection" ->
            LET wh == VAdd(wo, wi)
            IN  IF \/ REq(cos_theta(wi), Zero) \/ REq(cos_theta(wo), Zero)
                   \/ (RLe(wh[1], Zero) /\ REq(wh[2], Zero) /\ REq(wh[3], Zero))
                THEN BLACK
                ELSE CDivS(CMul(CScale(t.r0, MicrofacetDG), t.color),
                           RMul(I(4), RMul(cos_theta(wi), cos_theta(wo))))

BxDF_pdf(t, wo, wi) ==
    CASE t.type = "Lambertian" ->
            IF same_hemisphere(wo, wi) THEN RMul(abs_cos_theta(wi), RDiv(One, PI)) ELSE Zero
      [] t.type = "TransmissionSpecular" -> Zero
      [] t.type = "MicrofacetReflection" ->
            IF ~same_hemisphere(wo, wi) THEN Zero ELSE MicrofacetPdf

\* sample_f of one term.  rnd carries the random draws of the term's sampler:
\* rnd.wi is the cosine-hemisphere sample, rnd.wh the sampled half vector.
\* wi0, pdf0 and kind0 are the caller's out-parameters before the call.
BxDF_sample_f(t, wo, rnd, wi0, pdf0, kind0) ==
    CASE t.type = "Lambertian" ->
            LET up == vec3(rnd.wi[1], rnd.wi[2], RAbs(rnd.wi[3]))
                wi == IF RLt(wo[3], Zero) THEN vec3(up[1], up[2], RNeg(up[3])) ELSE up
            IN  [f |-> BxDF_f(t, wo, wi), wi |-> wi, pdf |-> BxDF_pdf(t, wo, wi),
                 sampled_kind |-> kind(t)]
      [] t.type = "TransmissionSpecular" ->
            LET entering == RGt(cos_theta(wo), Zero)
                eta_frac == IF entering THEN RDiv(One, t.eta_b) ELSE RDiv(t.eta_b, One)
                r == refract(wo, faceforward(vec3(Zero, Zero, One), wo), eta_frac)
            IN  IF r = <<>>
                THEN [f |-> BLACK, wi |-> wi0, pdf |-> One, sampled_kind |-> kind(t)]
                ELSE [f |-> CDivS(CScale(t.color, RSub(One, FresnelDielectricF)),
                                  abs_cos_theta(r[1])),
                      wi |-> r[1], pdf |-> One, sampled_kind |-> kind(t)]
      [] t.type = "MicrofacetReflection" ->
            LET wh == IF RLt(wo[3], Zero) THEN VNeg(rnd.wh) ELSE rnd.wh
                wi == reflect(wo, wh)
            IN  IF ~same_hemisphere(wo, wi)
                THEN [f |-> BLACK, wi |-> wi, pdf |-> pdf0, sampled_kind |-> kind(t)]
                ELSE [f |-> BxDF_f(t, wo, wi), wi |-> wi, pdf |-> MicrofacetPdf,
                      sampled_kind |-> kind(t)]

\* ------------------------------------------------------------------------
\* BSDF aggregate
\* ------------------------------------------------------------------------
BSDF_new(intersect) ==
    [bxdfs |-> <<>>,
     surface_normal |-> intersect.normal,
     surface_tangent |-> intersect.tangent,
     surface_cotangent |-> VNormalize(VCross(intersect.normal, intersect.tangent)),
     geom_normal |-> intersect.normal]

add_dropped(b, bxdf) == b

\* self.bxdfs.push(bxdf)
add(b, bxdf) == [b EXCEPT !.bxdfs = Append(b.bxdfs, bxdf)]

world_to_normal_swapped(b, v) ==
    vec3(VDot(v, b.surface_tangent), VDot(v, b.surface_cotangent), VDot(v, b.surface_normal))

world_to_normal(b, v) ==
    vec3(VDot(v, b.surface_cotangent), VDot(v, b.surface_tangent), VDot(v, b.surface_normal))

normal_to_world(b, v) ==
    vec3(RAdd(RAdd(RMul(b.surface_cotangent[1], v[1]), RMul(b.surface_tangent[1], v[2])),
              RMul(b.surface_normal[1], v[3])),
         RAdd(RAdd(RMul(b.surface_cotangent[2], v[1]), RMul(b.surface_tangent[2], v[2])),
              RMul(b.surface_normal[2], v[3])),
         RAdd(RAdd(RMul(b.surface_cotangent[3], v[1]), RMul(b.surface_tangent[3], v[2])),
              RMul(b.surface_normal[3], v[3])))

\* indices (0-based, in order) of the terms whose kind matches the query
RECURSIVE MatchingFrom(_, _, _)
MatchingFrom(b, q, i) ==
    IF i >= Len(b.bxdfs) THEN <<>>
    ELSE (IF matches(kind(b.bxdfs[i + 1]), q) THEN <<i>> ELSE <<>>)
         \o MatchingFrom(b, q, i + 1)

Matching(b, q) == MatchingFrom(b, q, 0)

num_components(b, q) == Len(Matching(b, q))

TermAt(b, i) == b.bxdfs[i + 1]

Contributes(b, i, reflect_, q) ==
    /\ matches(kind(TermAt(b, i)), q)
    /\ \/ (reflect_ /\ has(kind(TermAt(b, i)), REFLECTION))
       \/ (~reflect_ /\ has(kind(TermAt(b, i)), TRANSMISSION))

RECURSIVE FSumFrom(_, _, _, _, _, _)
FSumFrom(b, wo, wi, reflect_, q, i) ==
    IF i >= Len(b.bxdfs) THEN BLACK
    ELSE IF Contributes(b, i, reflect_, q)
         THEN CAdd(BxDF_f(TermAt(b, i), wo, wi), FSumFrom(b, wo, wi, reflect_, q, i + 1))
         ELSE FSumFrom(b, wo, wi, reflect_, q, i + 1)

RECURSIVE FCallsFrom(_, _, _, _, _, _)
FCallsFrom(b, wo, wi, reflect_, q, i) ==
    IF i >= Len(b.bxdfs) THEN <<>>
    ELSE (IF Contributes(b, i, reflect_, q)
          THEN <<[idx |-> i, method |-> "f", wo |-> wo, wi |-> wi]>> ELSE <<>>)
         \o FCallsFrom(b, wo, wi, reflect_, q, i + 1)

f_normal_space(b, wo, wi, reflect_, q) == FSumFrom(b, wo, wi, reflect_, q, 0)

IsReflect_always(b, wo_world, wi_world) == TRUE

\* wi.dot(self.geom_normal) * wo.dot(self.geom_normal) > 0.0
IsReflect(b, wo_world, wi_world) ==
    RGt(RMul(VDot(wi_world, b.geom_normal), VDot(wo_world, b.geom_normal)), Zero)

BSDF_f(b, wo_world, wi_world, q) ==
    LET reflect_ == IsReflect(b, wo_world, wi_world)
        wo == world_to_normal(b, wo_world)
        wi == world_to_normal(b, wi_world)
    IN  [op |-> "f", wo_world |-> wo_world, wi_world |-> wi_world, query |-> q,
         panic |-> FALSE,
         f |-> f_normal_space(b, wo, wi, reflect_, q),
         calls |-> FCallsFrom(b, wo, wi, reflect_, q, 0)]

RECURSIVE PdfFold(_, _, _, _, _)
PdfFold(b, wo, wi, q, i) ==
    IF i >= Len(b.bxdfs) THEN <<0, Zero>>
    ELSE LET rest == PdfFold(b, wo, wi, q, i + 1)
         IN  IF matches(kind(TermAt(b, i)), q)
             THEN <<rest[1] + 1, RAdd(BxDF_pdf(TermAt(b, i), wo, wi), rest[2])>>
             ELSE rest

RECURSIVE PdfCallsFrom(_, _, _, _, _, _)
PdfCallsFrom(b, wo, wi, q, skip, i) ==
    IF i >= Len(b.bxdfs) THEN <<>>
    ELSE (IF i # skip /\ matches(kind(TermAt(b, i)), q)
          THEN <<[idx |-> i, method |-> "pdf", wo |-> wo, wi |-> wi]>> ELSE <<>>)
         \o PdfCallsFrom(b, wo, wi, q, skip, i + 1)

BSDF_pdf(b, wo, wi, q) ==
    LET fold == PdfFold(b, wo, wi, q, 0)
    IN  [op |-> "pdf", wo_world |-> wo, wi_world |-> wi, query |-> q,
         panic |-> FALSE,
         pdf |-> RDiv(fold[2], I(fold[1])),
         calls |-> PdfCallsFrom(b, wo, wi, q, -1, 0)]

RECURSIVE OtherPdfSum(_, _, _, _, _, _)
OtherPdfSum(b, wo, wi, q, skip, i) ==
    IF i >= Len(b.bxdfs) THEN Zero
    ELSE IF i # skip /\ matches(kind(TermAt(b, i)), q)
         THEN RAdd(BxDF_pdf(TermAt(b, i), wo, wi), OtherPdfSum(b, wo, wi, q, skip, i + 1))
         ELSE OtherPdfSum(b, wo, wi, q, skip, i + 1)

Min(a, b) == IF a < b THEN a ELSE b

\* .nth(comp) without the kind filter
NthMatching_unfiltered(b, q, comp) ==
    IF comp >= 0 /\ comp < Len(b.bxdfs) THEN <<comp>> ELSE <<>>

\* .filter(matches).nth(comp): <<>> is None, <<i>> is Some(i)
NthMatching(b, q, comp) ==
    IF comp >= 0 /\ comp < Len(Matching(b, q)) THEN <<Matching(b, q)[comp + 1]>> ELSE <<>>

Recombines_always(term_kind) == TRUE

\* if !bxdf.kind().has(BxDFKind::SPECULAR): the sampled term is combined
\* with the other matching terms
Recombines(term_kind) == ~has(term_kind, SPECULAR)

\* u is the draw of scalar::rand(); wi0 and kind0 are the caller's
\* out-parameters before the call
BSDF_sample_f(b, wo_world, wi0, kind0, q, u, rnd) ==
    LET num_matching == num_components(b, q)
        base == [op |-> "sample_f", wo_world |-> wo_world, query |-> q, u |-> u,
                 num_matching |-> num_matching, panic |-> FALSE, chosen |-> -1,
                 f |-> BLACK, pdf |-> Zero, wi_world |-> wi0, sampled_kind |-> kind0,
                 term_f |-> BLACK, term_pdf |-> Zero, wi |-> VZero, calls |-> <<>>]
    IN  IF num_matching = 0 THEN base
        ELSE
        LET comp == Min(RFloor(RMul(u, I(num_matching))), num_matching - 1)
            nth == NthMatching(b, q, comp)
        IN  IF nth = <<>> THEN [base EXCEPT !.panic = TRUE]
            ELSE
            LET bxdf_index == nth[1]
                bxdf == TermAt(b, bxdf_index)
                wo == world_to_normal(b, wo_world)
            IN  IF REq(wo[3], Zero) THEN [base EXCEPT !.chosen = bxdf_index]
                ELSE
                LET smp == BxDF_sample_f(bxdf, wo, rnd, VZero, Zero, kind0)
                    wi == smp.wi
                    wi_world == normal_to_world(b, wi)
                    combine == Recombines(kind(bxdf))
                    pdf == IF combine
                           THEN RDiv(RAdd(smp.pdf, OtherPdfSum(b, wo, wi, q, bxdf_index, 0)),
                                     I(num_matching))
                           ELSE smp.pdf
                    refl == IsReflect(b, wo_world, wi_world)
                    recompute == combine /\ num_matching > 1
                IN  [base EXCEPT
                       !.chosen = bxdf_index,
                       !.f = IF recompute THEN f_normal_space(b, wo, wi, refl, q) ELSE smp.f,
                       !.pdf = pdf,
                       !.wi_world = wi_world,
                       !.sampled_kind = smp.sampled_kind,
                       !.term_f = smp.f,
                       !.term_pdf = smp.pdf,
                       !.wi = wi,
                       !.calls =
                          <<[idx |-> bxdf_index, method |-> "sample_f", wo |-> wo, wi |-> wi]>>
                          \o (IF combine THEN PdfCallsFrom(b, wo, wi, q, bxdf_index, 0) ELSE <<>>)
                          \o (IF recompute THEN FCallsFrom(b, wo, wi, refl, q, 0) ELSE <<>>)]

\* ------------------------------------------------------------------------
\* Materials and surface interactions
\* ------------------------------------------------------------------------
mix(a, b, value) ==
    LET v == RMax(Zero, IF RLt(value, One) THEN value ELSE One)
    IN  CAdd(CScale(a, RSub(One, v)), CScale(b, v))

from_value(v) == color(v, v, v)

SampledDisneyMaterial(base_color, metallic, roughness, clearcoat, clearcoat_gloss, transmission, ior) ==
    [base_color |-> base_color, metallic |-> metallic, specular |-> R(1, 2),
     specular_tint |-> Zero, roughness |-> roughness, anisotropic |-> Zero,
     clearcoat |-> clearcoat, clearcoat_gloss |-> clearcoat_gloss,
     transmission |-> transmission, ior |-> ior]

DisneyMaterial_compute_scattering(si, allow_multiple_lobes) ==
    LET m == si.sampled_material
        bsdf0 == BSDF_new(si)
    IN  IF RGt(m.transmission, Zero)
        THEN add(bsdf0, TransmissionSpecular(m.base_color, m.ior))
        ELSE
        LET bsdf1 == IF m.metallic # One
                     THEN add(bsdf0, Lambertian(m.base_color, RSub(One, m.metallic)))
                     ELSE bsdf0
            alpha0 == RMul(m.roughness, m.roughness)
            aspect == RSqrt(RSub(One, RMul(R(9, 10), m.anisotropic)))
            alpha == <<RDiv(alpha0, aspect), RMul(alpha0, aspect)>>
            fresnel == mix(from_value(m.specular), m.base_color, m.metallic)
            bsdf2 == add(bsdf1, MicrofacetReflection(mix(WHITE, m.base_color, m.specular_tint),
                                                     TrowbridgeReitzDistribution_new(alpha),
                                                     fresnel))
            cc0 == RSub(R(1, 2), RMul(m.clearcoat_gloss, R(1, 2)))
            cc == RMul(cc0, cc0)
        IN  IF allow_multiple_lobes /\ m.clearcoat # Zero
            THEN add(bsdf2, MicrofacetReflection(from_value(One),
                                                 TrowbridgeReitzDistribution_new(<<cc, cc>>),
                                                 fresnel))
            ELSE bsdf2

EmptyMaterial_compute_scattering(si) == BSDF_new(si)

\* normal and tangent produced by Shape::intersect for a sphere hit with the
\* given outward normal, and for a rectangle hit
SphereFrame(normal) ==
    [normal |-> normal,
     tangent |-> IF RLe(RAbs(normal[3]), R(1, 1000000)) /\ RLe(RAbs(normal[1]), R(1, 1000000))
                 THEN vec3(One, Zero, Zero)
                 ELSE VNormalize(vec3(normal[3], Zero, RNeg(normal[1])))]

RectangleFrame == [normal |-> vec3(Zero, One, Zero), tangent |-> vec3(Zero, Zero, One)]

FrameInputs ==
    {SphereFrame(n) : n \in
        {vec3(Zero, Zero, One), vec3(Zero, One, Zero), vec3(RNeg(One), Zero, Zero),
         vec3(R(3, 5), Zero, R(4, 5)), vec3(R(4, 5), R(3, 5), Zero),
         vec3(Zero, R(-3, 5), R(-4, 5))}}
    \cup {RectangleFrame}

ShadingFrames == {SphereFrame(vec3(R(3, 5), Zero, R(4, 5)))}

MaterialInputs ==
    {SampledDisneyMaterial(WHITE, One, Zero, Zero, Zero, One, I(2)),
     SampledDisneyMaterial(BLACK, Zero, R(1, 2), Zero, Zero, Zero, One)}
    \cup
    {SampledDisneyMaterial(WHITE, One, ro, Zero, Zero, Zero, One) : ro \in {Zero, R(1, 2)}}
    \cup
    {SampledDisneyMaterial(WHITE, Zero, ro, cl[1], cl[2], Zero, One) :
        ro \in {Zero, R(1, 2)},
        cl \in {<<Zero, Zero>>, <<One, Zero>>, <<One, One>>}}

Intersection(frame, material) ==
    [normal |-> frame.normal, tangent |-> frame.tangent, sampled_material |-> material]

WorldDirs ==
    {vec3(Zero, One, Zero), vec3(R(3, 5), Zero, R(4, 5)),
     vec3(Zero, R(3, 5), R(4, 5)), vec3(Zero, R(-3, 5), R(-4, 5))}

FrameDirs ==
    WorldDirs \cup
    {vec3(One, Zero, Zero), vec3(Zero, Zero, One), vec3(R(4, 5), R(3, 5), Zero),
     vec3(I(2), RNeg(One), R(1, 2)), vec3(R(2, 3), R(-2, 3), R(1, 3))}

SelDen == 3

SamplerDraws ==
    {[wi |-> vec3(Zero, Zero, One), wh |-> vec3(Zero, Zero, One)],
     [wi |-> vec3(R(3, 5), Zero, R(4, 5)), wh |-> vec3(One, Zero, Zero)],
     [wi |-> vec3(One, Zero, Zero), wh |-> vec3(Zero, Zero, One)]}

NoCall == [op |-> "none", panic |-> FALSE, calls |-> <<>>]

\* ------------------------------------------------------------------------
\* power_heuristic
\* ------------------------------------------------------------------------
MaxPdfHalves == 5
MaxSampleCount == 2

PdfInputs == {R(k, 2) : k \in 0..MaxPdfHalves}

power_heuristic_unsquared_g(nf, f_pdf, ng, g_pdf) ==
    LET f == RMul(nf, f_pdf)
        g == RMul(ng, g_pdf)
    IN  RDiv(RMul(f, f), RAdd(RMul(f, f), g))

power_heuristic(nf, f_pdf, ng, g_pdf) ==
    LET f == RMul(nf, f_pdf)
        g == RMul(ng, g_pdf)
    IN  RDiv(RMul(f, f), RAdd(RMul(f, f), RMul(g, g)))

NoHeuristic == [nf |-> Zero, f_pdf |-> Zero, ng |-> Zero, g_pdf |-> Zero, out |-> Zero]

HeuristicCall(nf, f_pdf, ng, g_pdf) ==
    [nf |-> nf, f_pdf |-> f_pdf, ng |-> ng, g_pdf |-> g_pdf,
     out |-> power_heuristic(nf, f_pdf, ng, g_pdf)]

\* ------------------------------------------------------------------------
\* Distribution1D
\* ------------------------------------------------------------------------
MaxN == 4
MaxFunc == 2
UDen == 12

USet == {R(k, UDen) : k \in 0..(UDen - 1)}

RECURSIVE SearchLoop(_, _, _, _)
SearchLoop(cdf, value, low, high) ==
    IF low < high
    THEN LET mid == (low + high) \div 2
         IN  IF RLe(cdf[mid], value)
             THEN SearchLoop(cdf, value, mid + 1, high)
             ELSE SearchLoop(cdf, value, low, mid)
    ELSE low

Clamp_unclamped(x, lo, hi) == x

\* (low as isize - 1).clamp(lo, hi)
Clamp(x, lo, hi) == IF x < lo THEN lo ELSE IF x > hi THEN hi ELSE x

\* cdf is a function over 0..len-1
CdfLen(cdf) == Cardinality(DOMAIN cdf)

binary_search_cdf(cdf, value) ==
    LET low == SearchLoop(cdf, value, 0, CdfLen(cdf) - 1)
    IN  Clamp(low - 1, 0, CdfLen(cdf) - 1)

RECURSIVE PrefixCdf(_, _, _)
PrefixCdf(func, n, i) ==
    IF i = 0 THEN Zero
    ELSE RAdd(PrefixCdf(func, n, i - 1), RDiv(func[i - 1], I(n)))

Distribution1D_new_no_fallback(func) ==
    LET n == Cardinality(DOMAIN func)
        raw == [i \in 0..n |-> PrefixCdf(func, n, i)]
        integral == raw[n]
        cdf == [i \in 0..n |-> IF i = 0 THEN raw[0] ELSE RDiv(raw[i], integral)]
    IN  [cdf |-> cdf, integral |-> integral, func |-> func]

Distribution1D_new_unnormalized(func) ==
    LET n == Cardinality(DOMAIN func)
        raw == [i \in 0..n |-> PrefixCdf(func, n, i)]
        integral == raw[n]
        cdf == IF REq(integral, Zero)
               THEN [i \in 0..n |-> IF i = 0 THEN raw[0] ELSE RDiv(I(i), I(n))]
               ELSE raw
    IN  [cdf |-> cdf, integral |-> integral, func |-> func]

Distribution1D_new(func) ==
    LET n == Cardinality(DOMAIN func)
        raw == [i \in 0..n |-> PrefixCdf(func, n, i)]
        integral == raw[n]
        cdf == IF REq(integral, Zero)
               THEN [i \in 0..n |-> IF i = 0 THEN raw[0] ELSE RDiv(I(i), I(n))]
               ELSE [i \in 0..n |-> IF i = 0 THEN raw[0] ELSE RDiv(raw[i], integral)]
    IN  [cdf |-> cdf, integral |-> integral, func |-> func]

count(d) == Cardinality(DOMAIN d.func)

\* an out-of-range index is a panic in the source
InBounds(arr, i) == i \in DOMAIN arr

sample_continuous(d, u) ==
    LET offset == binary_search_cdf(d.cdf, u)
    IN  IF ~(InBounds(d.cdf, offset) /\ InBounds(d.cdf, offset + 1) /\ InBounds(d.func, offset))
        THEN [op |-> "sample_continuous", u |-> u, panic |-> TRUE,
              offset |-> offset, x |-> NaN, pdf |-> NaN]
        ELSE LET w == RSub(d.cdf[offset + 1], d.cdf[offset])
                 du0 == RSub(u, d.cdf[offset])
                 du == IF RGt(w, Zero) THEN RDiv(du0, w) ELSE du0
             IN  [op |-> "sample_continuous", u |-> u, panic |-> FALSE,
                  offset |-> offset,
                  x |-> RDiv(RAdd(I(offset), du), I(CdfLen(d.cdf))),
                  pdf |-> RDiv(d.func[offset], d.integral)]

sample_discrete(d, u) ==
    LET offset == binary_search_cdf(d.cdf, u)
    IN  IF ~(InBounds(d.cdf, offset) /\ InBounds(d.cdf, offset + 1))
        THEN [op |-> "sample_discrete", u |-> u, panic |-> TRUE,
              offset |-> offset, x |-> NaN, pdf |-> NaN]
        ELSE [op |-> "sample_discrete", u |-> u, panic |-> FALSE,
              offset |-> offset,
              x |-> RDiv(RSub(u, d.cdf[offset]),
                         RSub(d.cdf[offset + 1], d.cdf[offset])),
              pdf |-> NaN]

FuncInputs ==
    UNION {[0..(n - 1) -> {I(v) : v \in 0..MaxFunc}] : n \in 1..MaxN}

NoSample ==
    [op |-> "none", u |-> Zero, panic |-> FALSE, offset |-> 0, x |-> Zero, pdf |-> Zero]

InitDist ==
    /\ \E func \in FuncInputs : dist = Distribution1D_new(func)
    /\ dsample = NoSample
    /\ ph = NoHeuristic /\ hit = Idle /\ bsdf = Idle /\ bcall = NoCall
    /\ pc = Idle /\ bounce_count = 0 /\ radiance = Idle /\ beta = Idle
    /\ specular_bounce = FALSE /\ scene = Idle /\ last = Idle
    /\ ray = Idle /\ shape_hits = Idle /\ nearest = Idle /\ intersections = 0
    /\ lsample = Idle /\ tiler = Idle /\ harness = Idle

SampleContinuous ==
    /\ \E u \in USet : dsample' = sample_continuous(dist, u)
    /\ UNCHANGED <<dist, ph, renderVars, bsdfVars, pathVars>>

SampleDiscrete ==
    /\ \E u \in USet : dsample' = sample_discrete(dist, u)
    /\ UNCHANGED <<dist, ph, renderVars, bsdfVars, pathVars>>

NextDist == SampleContinuous \/ SampleDiscrete

SpecDist == InitDist /\ [][NextDist]_vars

ConstPositive(func) ==
    RGt(func[0], Zero) /\ \A i \in DOMAIN func : func[i] = func[0]

AllZero(func) == \A i \in DOMAIN func : func[i] = Zero

\* C4: for a Distribution1D built from a constant positive function,
\* sample_continuous(u) returns the position u itself (uniform over [0,1))
\* and reports pdf = 1.
C4_ConstantFuncSamplesUniformly ==
    (dsample.op = "sample_continuous" /\ ConstPositive(dist.func))
        => (dsample.x = dsample.u /\ dsample.pdf = One)

\* C5: for a Distribution1D built from all-zero samples, sample_continuous and
\* sample_discrete do not panic and select bucket floor(u*n).
C5_AllZeroFallsBackToUniform ==
    (dsample.op # "none" /\ AllZero(dist.func))
        => (/\ ~dsample.panic
            /\ dsample.offset = RFloor(RMul(dsample.u, I(count(dist))))
            /\ dsample.offset \in 0..(count(dist) - 1))

C5_Witness ==
    /\ AllZero(dist.func) /\ count(dist) >= 3
    /\ dsample.op = "sample_discrete" /\ dsample.offset = count(dist) - 1

CdfWellFormed(d) ==
    LET n == count(d)
    IN  /\ DOMAIN d.cdf = 0..n
        /\ d.cdf[0] = Zero
        /\ d.cdf[n] = One
        /\ \A i \in 0..(n - 1) : RLe(d.cdf[i], d.cdf[i + 1])
        /\ AllZero(d.func) => \A i \in 0..n : d.cdf[i] = R(i, n)

\* C6: the stored CDF has n+1 entries, starts at 0, ends at 1, is
\* non-decreasing, is the uniform CDF i/n when the samples sum to zero, and
\* the distribution is never modified after construction.
C6_CdfInvariant == [](CdfWellFormed(dist)) /\ [][dist' = dist]_vars

C6_Witness ==
    /\ count(dist) >= 3
    /\ dist.func[0] = Zero /\ dist.func[1] = I(2) /\ dist.func[2] = I(1)
    /\ dsample.op = "sample_continuous"

\* ------------------------------------------------------------------------
\* power_heuristic: specification and properties
\* ------------------------------------------------------------------------
InitHeur ==
    /\ ph = NoHeuristic
    /\ dist = Idle /\ dsample = NoSample /\ hit = Idle /\ bsdf = Idle /\ bcall = NoCall
    /\ pc = Idle /\ bounce_count = 0 /\ radiance = Idle /\ beta = Idle
    /\ specular_bounce = FALSE /\ scene = Idle /\ last = Idle
    /\ ray = Idle /\ shape_hits = Idle /\ nearest = Idle /\ intersections = 0
    /\ lsample = Idle /\ tiler = Idle /\ harness = Idle

PowerHeuristic ==
    /\ \E nf, ng \in {I(k) : k \in 1..MaxSampleCount} :
         \E f_pdf, g_pdf \in PdfInputs :
            ph' = HeuristicCall(nf, f_pdf, ng, g_pdf)
    /\ UNCHANGED <<distVars, bsdfVars, pathVars, renderVars>>

NextHeur == PowerHeuristic

SpecHeur == InitHeur /\ [][NextHeur]_vars

\* C7: power_heuristic(1, p, 1, p) = 1/2 for positive p; the weight is 1 when
\* g_pdf = 0 and nf*f_pdf > 0; in general the weight w satisfies
\* w * ((nf*f_pdf)^2 + (ng*g_pdf)^2) = (nf*f_pdf)^2.
C7_PowerHeuristicValues ==
    LET f2 == RMul(RMul(ph.nf, ph.f_pdf), RMul(ph.nf, ph.f_pdf))
        g2 == RMul(RMul(ph.ng, ph.g_pdf), RMul(ph.ng, ph.g_pdf))
    IN  /\ (ph.nf = One /\ ph.ng = One /\ ph.f_pdf = ph.g_pdf /\ RGt(ph.f_pdf, Zero))
            => ph.out = R(1, 2)
        /\ (ph.g_pdf = Zero /\ RGt(RMul(ph.nf, ph.f_pdf), Zero)) => ph.out = One
        /\ RGt(RAdd(f2, g2), Zero) => RMul(ph.out, RAdd(f2, g2)) = f2

C7_Witness ==
    /\ ph.nf = One /\ ph.ng = One
    /\ ph.f_pdf = R(3, 2) /\ ph.g_pdf = R(3, 2) /\ ph.out = R(1, 2)

\* ------------------------------------------------------------------------
\* BSDF aggregate: specification and properties
\* ------------------------------------------------------------------------
ShadingRequest(si, material, lobes, wo, wi, q) ==
    [si |-> si, material |-> material, allow_multiple_lobes |-> lobes,
     wo |-> wo, wi |-> wi, query |-> q]

InitBSDF ==
    /\ \E frame \in ShadingFrames, wo \in WorldDirs, wi \in WorldDirs, q \in {ALL, unset(ALL, SPECULAR)} :
         \/ \E material \in MaterialInputs, lobes \in BOOLEAN :
               /\ (lobes \/ (material.clearcoat # Zero /\ material.metallic = Zero))
               /\ hit = ShadingRequest(Intersection(frame, material), "Disney", lobes, wo, wi, q)
               /\ bsdf = DisneyMaterial_compute_scattering(Intersection(frame, material), lobes)
         \/ /\ hit = ShadingRequest(Intersection(frame, "none"), "Empty", FALSE, wo, wi, q)
            /\ bsdf = EmptyMaterial_compute_scattering(Intersection(frame, "none"))
    /\ bcall = NoCall
    /\ dist = Idle /\ dsample = NoSample /\ ph = NoHeuristic
    /\ pc = Idle /\ bounce_count = 0 /\ radiance = Idle /\ beta = Idle
    /\ specular_bounce = FALSE /\ scene = Idle /\ last = Idle
    /\ ray = Idle /\ shape_hits = Idle /\ nearest = Idle /\ intersections = 0
    /\ lsample = Idle /\ tiler = Idle /\ harness = Idle

NumComponents ==
    /\ bcall' = [op |-> "num_components", panic |-> FALSE, calls |-> <<>>,
                 query |-> hit.query, out |-> num_components(bsdf, hit.query)]
    /\ UNCHANGED <<bsdf, hit, distVars, ph, renderVars, pathVars>>

EvalF ==
    /\ bcall' = BSDF_f(bsdf, hit.wo, hit.wi, hit.query)
    /\ UNCHANGED <<bsdf, hit, distVars, ph, renderVars, pathVars>>

EvalPdf ==
    /\ bcall' = BSDF_pdf(bsdf, hit.wo, hit.wi, hit.query)
    /\ UNCHANGED <<bsdf, hit, distVars, ph, renderVars, pathVars>>

SampleF ==
    /\ \E u \in {R(k, SelDen) : k \in 0..SelDen}, rnd \in SamplerDraws :
         bcall' = BSDF_sample_f(bsdf, hit.wo, VZero, ALL, hit.query, u, rnd)
    /\ UNCHANGED <<bsdf, hit, distVars, ph, renderVars, pathVars>>

\* C9: BSDF::pdf returns the arithmetic mean of the matching terms'
\* pdf(wo, wi), and 0 when no term matches the query mask.
C9_PdfIsMeanOrZero ==
    bcall.op = "pdf" =>
        LET m == Matching(bsdf, bcall.query)
            sum == PdfFold(bsdf, bcall.wo_world, bcall.wi_world, bcall.query, 0)[2]
        IN  IF Len(m) = 0 THEN bcall.pdf = Zero
            ELSE RMul(bcall.pdf, I(Len(m))) = sum

MatchingSet(b, q) == {i \in 0..(Len(b.bxdfs) - 1) : matches(kind(TermAt(b, i)), q)}

SampledTerms(c) == {c.calls[j].idx : j \in {k \in DOMAIN c.calls : c.calls[k].method = "sample_f"}}

NextBSDF == NumComponents \/ EvalF \/ EvalPdf \/ SampleF

SpecBSDF == InitBSDF /\ [][NextBSDF]_vars

\* ------------------------------------------------------------------------
\* Shading frame: specification and properties
\* ------------------------------------------------------------------------
InitFrame ==
    /\ \E frame \in FrameInputs : \E v \in FrameDirs \cup {frame.normal, frame.tangent} :
         /\ hit = ShadingRequest(Intersection(frame, "none"), "Empty", FALSE, v, v, ALL)
         /\ bsdf = EmptyMaterial_compute_scattering(Intersection(frame, "none"))
    /\ bcall = NoCall
    /\ dist = Idle /\ dsample = NoSample /\ ph = NoHeuristic
    /\ pc = Idle /\ bounce_count = 0 /\ radiance = Idle /\ beta = Idle
    /\ specular_bounce = FALSE /\ scene = Idle /\ last = Idle
    /\ ray = Idle /\ shape_hits = Idle /\ nearest = Idle /\ intersections = 0
    /\ lsample = Idle /\ tiler = Idle /\ harness = Idle

WorldToNormal ==
    /\ bcall' = [op |-> "world_to_normal", panic |-> FALSE, calls |-> <<>>,
                 arg |-> hit.wo, out |-> world_to_normal(bsdf, hit.wo)]
    /\ UNCHANGED <<bsdf, hit, distVars, ph, renderVars, pathVars>>

NormalToWorld ==
    /\ bcall' = [op |-> "normal_to_world", panic |-> FALSE, calls |-> <<>>,
                 arg |-> hit.wo, out |-> normal_to_world(bsdf, hit.wo)]
    /\ UNCHANGED <<bsdf, hit, distVars, ph, renderVars, pathVars>>

Orthonormal(n, t) == VDot(n, n) = One /\ VDot(t, t) = One /\ VDot(n, t) = Zero

\* C8: for a frame built from orthogonal unit normal and tangent,
\* world_to_normal and normal_to_world are inverses, the normal maps to
\* (0,0,1) and the tangent to (0,1,0), and back.
C8_FrameRoundTrip ==
    Orthonormal(hit.si.normal, hit.si.tangent) =>
        /\ bcall.op = "world_to_normal" =>
              /\ normal_to_world(bsdf, bcall.out) = bcall.arg
              /\ bcall.arg = hit.si.normal => bcall.out = vec3(Zero, Zero, One)
              /\ bcall.arg = hit.si.tangent => bcall.out = vec3(Zero, One, Zero)
        /\ bcall.op = "normal_to_world" =>
              /\ world_to_normal(bsdf, bcall.out) = bcall.arg
              /\ bcall.arg = vec3(Zero, Zero, One) => bcall.out = hit.si.normal
              /\ bcall.arg = vec3(Zero, One, Zero) => bcall.out = hit.si.tangent

C8_Witness ==
    /\ Orthonormal(hit.si.normal, hit.si.tangent)
    /\ hit.si.normal = vec3(R(4, 5), R(3, 5), Zero)
    /\ bcall.op = "world_to_normal" /\ bcall.arg = vec3(I(2), RNeg(One), R(1, 2))
    /\ bcall.out # bcall.arg

NextFrame == WorldToNormal \/ NormalToWorld

SpecFrame == InitFrame /\ [][NextFrame]_vars

\* ------------------------------------------------------------------------
\* Scene::intersect
\* ------------------------------------------------------------------------
\* EmptyMaterial::sample yields the unit value
EmptySampled == [empty |-> TRUE]

Miss ==
    [tag |-> "Miss", distance |-> Zero, normal |-> VZero, tangent |-> VZero,
     sampled_material |-> EmptySampled, light |-> 0]

Ignored == [Miss EXCEPT !.tag = "Ignored"]

Hit(distance, frame, sampled) ==
    [tag |-> "Hit", distance |-> distance, normal |-> frame.normal,
     tangent |-> frame.tangent, sampled_material |-> sampled, light |-> 0]

\* HitLight(intersection.map(|_| area)): light is the index of the area light
HitLight(intersection, area) ==
    [intersection EXCEPT !.tag = "HitLight", !.sampled_material = EmptySampled, !.light = area]

unwrap_distance(p) == p.distance

\* The ray/shape geometry is not represented: what Shape::intersect reports
\* for a shape is an input of each intersection step, [tag, distance].
ShapeOutcomes ==
    {[tag |-> "Miss", distance |-> Zero], [tag |-> "Ignored", distance |-> Zero]}
    \cup {[tag |-> "Hit", distance |-> d] : d \in {One, I(2)}}

Shape_intersect(shape, sampled, out) ==
    CASE out.tag = "Hit" -> Hit(out.distance,
                                 IF shape = "Rectangle" THEN RectangleFrame
                                 ELSE SphereFrame(vec3(R(3, 5), Zero, R(4, 5))),
                                 sampled)
      [] out.tag = "Ignored" -> Ignored
      [] out.tag = "Miss" -> Miss

Nearer_farthest(current, distance) ==
    current.tag = "Miss" \/ RGt(distance, unwrap_distance(current))

\* nearest.is_miss() || intersection.distance < nearest.unwrap_distance()
Nearer(current, distance) ==
    current.tag = "Miss" \/ RLt(distance, unwrap_distance(current))

\* for object in &self.objects; an Ignored result is the early return
RECURSIVE ObjectsLoop(_, _, _, _)
ObjectsLoop(sc, outs, i, current) ==
    IF i > Len(sc.objects) THEN current
    ELSE LET r == Shape_intersect(sc.objects[i].shape, sc.objects[i].material, outs[i])
         IN  CASE r.tag = "Hit" ->
                    ObjectsLoop(sc, outs, i + 1,
                                IF Nearer(current, r.distance) THEN r ELSE current)
               [] r.tag = "Ignored" -> Ignored
               [] r.tag = "Miss" -> ObjectsLoop(sc, outs, i + 1, current)

\* for light in &self.lights, Light::Area only
RECURSIVE LightsLoop(_, _, _, _)
LightsLoop(sc, outs, j, current) ==
    IF j > Len(sc.lights) THEN current
    ELSE IF sc.lights[j].type # "Area" THEN LightsLoop(sc, outs, j + 1, current)
    ELSE LET r == Shape_intersect(sc.lights[j].shape, EmptySampled,
                                  outs[Len(sc.objects) + j])
         IN  CASE r.tag = "Hit" ->
                    LightsLoop(sc, outs, j + 1,
                               IF Nearer(current, r.distance) THEN HitLight(r, j)
                               ELSE current)
               [] r.tag = "Ignored" -> Ignored
               [] r.tag = "Miss" -> LightsLoop(sc, outs, j + 1, current)

Scene_intersect(sc, outs) ==
    LET afterObjects == ObjectsLoop(sc, outs, 1, Miss)
    IN  IF afterObjects.tag = "Ignored" THEN Ignored
        ELSE LightsLoop(sc, outs, 1, afterObjects)

AreaLight_le(light) == light.radiance

\* Hdri::in_direction on an environment image of one column and two rows:
\* v = angle(direction, +Y) / PI selects the row
in_direction(hdri, direction) ==
    IF RGt(direction[2], Zero) THEN hdri.up ELSE hdri.down

max_value3(v) ==
    IF RGt(v[1], v[2]) /\ RGt(v[1], v[3]) THEN v[1]
    ELSE IF RGt(v[2], v[3]) THEN v[2]
    ELSE v[3]

\* ------------------------------------------------------------------------
\* ray_color
\* ------------------------------------------------------------------------
MaxBounce == 5
RouletteStart == 3

Ray_new(direction) == [direction |-> VNormalize(direction)]

\* objects are [shape, material], lights [type, shape, radiance]
SceneLayouts ==
    LET Object(shape, material) == [shape |-> shape, material |-> material]
        AreaLight(shape, le) == [type |-> "Area", shape |-> shape, radiance |-> le]
        PointLight(le) == [type |-> "Point", shape |-> "none", radiance |-> le]
        DiffuseRough ==
            SampledDisneyMaterial(color(One, R(1, 2), R(1, 2)), Zero, R(1, 2), Zero, Zero, Zero, One)
        MetalSmooth == SampledDisneyMaterial(WHITE, One, Zero, Zero, Zero, Zero, One)
        Glass == SampledDisneyMaterial(WHITE, Zero, Zero, Zero, Zero, One, R(3, 4))
    IN
    {[objects |-> <<Object("Rectangle", DiffuseRough)>>,
      lights |-> <<AreaLight("Rectangle", color(I(2), I(2), I(2)))>>],
     [objects |-> <<Object("Rectangle", MetalSmooth), Object("Rectangle", MetalSmooth)>>,
      lights |-> <<>>],
     [objects |-> <<Object("Rectangle", Glass)>>,
      lights |-> <<PointLight(WHITE)>>],
     [objects |-> <<>>,
      lights |-> <<PointLight(WHITE), AreaLight("Sphere", color(I(3), One, One))>>]}

SceneInputs ==
    {[bounce_limit |-> n, objects |-> l.objects, lights |-> l.lights, hdri |-> [up |-> color(One, One, R(1, 2)),
               down |-> color(R(1, 4), R(1, 4), R(1, 4))]] :
        n \in 0..MaxBounce, l \in SceneLayouts}

ShapeCount(sc) == Len(sc.objects) + Len(sc.lights)

Consulted(sc, k) ==
    k <= Len(sc.objects) \/ sc.lights[k - Len(sc.objects)].type = "Area"

OutcomeInputs(sc) ==
    {o \in [1..ShapeCount(sc) -> ShapeOutcomes] :
        \A k \in 1..ShapeCount(sc) : ~Consulted(sc, k) => o[k].tag = "Miss"}

\* the random outcomes of one Hit iteration: wi and wh are the draws of the
\* sampled term, ld is the value estimate_direct returns
PathSamples ==
    {[wi |-> vec3(Zero, Zero, One), wh |-> vec3(Zero, Zero, One),
      ld |-> color(R(1, 2), R(1, 2), R(1, 2))],
     [wi |-> vec3(R(3, 5), Zero, R(4, 5)), wh |-> vec3(One, Zero, Zero),
      ld |-> color(R(1, 4), Zero, Zero)]}

NoBounce ==
    [arm |-> "none", exit |-> "none", bounce |-> 0, sampled_kind |-> 0,
     direct |-> FALSE, ld |-> BLACK, f |-> BLACK, pdf |-> Zero, rr |-> Zero,
     light |-> BLACK, contributed |-> FALSE]

LoopContinues_inclusive(bounce, bounce_limit) == bounce <= bounce_limit

\* for bounce_count in 0..scene.camera.bounce_limit
LoopContinues(bounce, bounce_limit) == bounce < bounce_limit

\* bounce_count > 3 && (1.0 - max_value3(beta).max(0.7)) < scalar::rand()
RouletteBreak(bounce, throughput, rr) ==
    bounce > RouletteStart
    /\ RLt(RSub(One, RMax(max_value3(throughput), R(7, 10))), rr)

Absorbed_pdf_only(f, pdf) == REq(pdf, Zero)

\* f.distance2(Color::origin()) == 0.0 || pdf == 0.0
Absorbed(f, pdf) == CIsBlack(f) \/ REq(pdf, Zero)

\* the PossibleIntersection::Hit arm after bsdf.sample_f has returned s; rad1
\* is the radiance after direct lighting, rr the roulette draw
HitArmSampled(intersection, r, rad1, direct, throughput, bounce, ld, rr, s) ==
    LET absorbed == Absorbed(s.f, s.pdf)
        throughput1 ==
            CQuantize(CMul(throughput,
                 CDivS(CScale(s.f, RAbs(VDot(s.wi_world, intersection.normal))), s.pdf)))
        roulette == ~absorbed /\ RouletteBreak(bounce, throughput1, rr)
    IN  [radiance |-> rad1,
         beta |-> IF absorbed THEN throughput ELSE throughput1,
         specular_bounce |-> has(s.sampled_kind, SPECULAR),
         ray |-> IF absorbed \/ roulette THEN r ELSE Ray_new(s.wi_world),
         break |-> absorbed \/ roulette,
         last |-> [NoBounce EXCEPT !.arm = "Hit",
                                   !.exit = IF absorbed THEN "absorbed"
                                            ELSE IF roulette THEN "roulette" ELSE "none",
                                   !.bounce = bounce,
                                   !.sampled_kind = s.sampled_kind,
                                   !.direct = direct,
                                   !.ld = IF direct THEN ld ELSE BLACK,
                                   !.f = s.f, !.pdf = s.pdf,
                                   !.rr = IF bounce > RouletteStart /\ ~absorbed THEN rr ELSE Zero]]

HasNonSpecular_any_term(b) == num_components(b, ALL) > 0

\* bsdf.num_components(BxDFKind::ALL.unset(BxDFKind::SPECULAR)) > 0
HasNonSpecular(b) == num_components(b, unset(ALL, SPECULAR)) > 0

\* radiance after the direct-lighting step; ld is the result of
\* estimate_direct, called only when the BSDF has a non-specular term
DirectRadiance(b, rad, throughput, ld) ==
    IF HasNonSpecular(b) THEN CQuantize(CAdd(rad, CMul(throughput, ld))) ELSE rad

\* the PossibleIntersection::HitLight arm
HitLightRadiance(rad, throughput, le) == CQuantize(CAdd(rad, CMul(throughput, le)))

MissRadiance_unconditional(rad, throughput, bounce, specular, light) ==
    CQuantize(CAdd(rad, CMul(light, throughput)))

\* the PossibleIntersection::Miss arm
MissRadiance(rad, throughput, bounce, specular, light) ==
    IF bounce = 0 \/ specular THEN CQuantize(CAdd(rad, CMul(light, throughput))) ELSE rad

Init ==
    /\ scene \in SceneInputs
    /\ ray = Ray_new(vec3(Zero, R(-4, 5), R(-3, 5)))
    /\ pc = "for" /\ bounce_count = 0
    /\ radiance = BLACK /\ beta = WHITE /\ specular_bounce = FALSE
    /\ last = NoBounce /\ shape_hits = <<>> /\ nearest = Miss /\ intersections = 0
    /\ dist = Idle /\ dsample = NoSample /\ ph = NoHeuristic
    /\ hit = Idle /\ bsdf = Idle /\ bcall = NoCall
    /\ lsample = Idle /\ tiler = Idle /\ harness = Idle

\* scene.intersect(&ray) at the head of a loop iteration
Intersect ==
    /\ pc = "for" /\ LoopContinues(bounce_count, scene.bounce_limit)
    /\ \E outs \in OutcomeInputs(scene) :
         /\ shape_hits' = outs
         /\ nearest' = Scene_intersect(scene, outs)
    /\ intersections' = intersections + 1
    /\ pc' = "match"
    /\ UNCHANGED <<bounce_count, radiance, beta, specular_bounce, scene, last, ray,
                   distVars, ph, renderVars, bsdfVars>>

\* the range is exhausted: return radiance
LoopEnd ==
    /\ pc = "for" /\ ~LoopContinues(bounce_count, scene.bounce_limit)
    /\ pc' = "return"
    /\ UNCHANGED <<bounce_count, radiance, beta, specular_bounce, scene, last, ray,
                   shape_hits, nearest, intersections, distVars, ph, renderVars, bsdfVars>>

\* the Hit arm: u and rnd are the random draws of sample_f, rr the draw of
\* scalar::rand() in the roulette test
ArmHit ==
    /\ pc = "match" /\ nearest.tag = "Hit"
    /\ \E b \in {DisneyMaterial_compute_scattering(nearest, TRUE)} :
       \E u \in {Zero, R(1, 2)}, rnd \in PathSamples,
          rr \in (IF bounce_count > RouletteStart THEN {Zero, R(1, 4), R(1, 2)} ELSE {Zero}) :
       \E s \in {BSDF_sample_f(b, VNeg(ray.direction), VZero, ALL, ALL, u, rnd)} :
       \E h \in {HitArmSampled(nearest, ray, DirectRadiance(b, radiance, beta, rnd.ld),
                               HasNonSpecular(b), beta, bounce_count, rnd.ld, rr, s)} :
             /\ radiance' = h.radiance
             /\ beta' = h.beta
             /\ specular_bounce' = h.specular_bounce
             /\ ray' = h.ray
             /\ last' = h.last
             /\ pc' = IF h.break THEN "return" ELSE "for"
             /\ bounce_count' = IF h.break THEN bounce_count ELSE bounce_count + 1
    /\ shape_hits' = <<>> /\ nearest' = Miss
    /\ UNCHANGED <<scene, intersections, distVars, ph, renderVars, bsdfVars>>

ArmHitLight ==
    /\ pc = "match" /\ nearest.tag = "HitLight"
    /\ radiance' = HitLightRadiance(radiance, beta, AreaLight_le(scene.lights[nearest.light]))
    /\ last' = [NoBounce EXCEPT !.arm = "HitLight", !.exit = "light", !.bounce = bounce_count,
                                !.light = AreaLight_le(scene.lights[nearest.light]),
                                !.contributed = TRUE]
    /\ pc' = "return"
    /\ shape_hits' = <<>> /\ nearest' = Miss
    /\ UNCHANGED <<bounce_count, beta, specular_bounce, ray, scene, intersections,
                   distVars, ph, renderVars, bsdfVars>>

ArmIgnored ==
    /\ pc = "match" /\ nearest.tag = "Ignored"
    /\ last' = [NoBounce EXCEPT !.arm = "Ignored", !.exit = "ignored", !.bounce = bounce_count]
    /\ pc' = "return"
    /\ shape_hits' = <<>> /\ nearest' = Miss
    /\ UNCHANGED <<bounce_count, radiance, beta, specular_bounce, ray, scene, intersections,
                   distVars, ph, renderVars, bsdfVars>>

ArmMiss ==
    /\ pc = "match" /\ nearest.tag = "Miss"
    /\ radiance' = MissRadiance(radiance, beta, bounce_count, specular_bounce,
                                in_direction(scene.hdri, ray.direction))
    /\ last' = [NoBounce EXCEPT !.arm = "Miss", !.exit = "miss", !.bounce = bounce_count,
                                !.light = in_direction(scene.hdri, ray.direction),
                                !.contributed = (bounce_count = 0 \/ specular_bounce)]
    /\ pc' = "return"
    /\ shape_hits' = <<>> /\ nearest' = Miss
    /\ UNCHANGED <<bounce_count, beta, specular_bounce, ray, scene, intersections,
                   distVars, ph, renderVars, bsdfVars>>

Next == Intersect \/ LoopEnd \/ ArmHit \/ ArmHitLight \/ ArmIgnored \/ ArmMiss

Spec == Init /\ [][Next]_vars

\* steps ray_color can still take: decreases with every step, 0 on return
StepsLeft ==
    IF pc = "return" THEN 0
    ELSE 3 * (scene.bounce_limit - bounce_count) + (IF pc = "for" THEN 2 ELSE 1)

MissesScene(sc, outs) ==
    \A k \in 1..ShapeCount(sc) : Consulted(sc, k) => outs[k].tag = "Miss"

PrecedingBounceSpecular == last.arm = "Hit" /\ has(last.sampled_kind, SPECULAR)

\* C2: when the ray misses the scene, background radiance times the
\* throughput is added only at bounce 0 or right after a bounce that sampled
\* a SPECULAR lobe; otherwise radiance is unchanged; the path ends either way.
C2_MissAddsBackgroundOnlyIfPrimaryOrSpecular ==
    [][(pc = "match" /\ MissesScene(scene, shape_hits)) =>
          /\ pc' = "return"
          /\ beta' = beta
          /\ radiance' =
                IF bounce_count = 0 \/ PrecedingBounceSpecular
                THEN CQuantize(CAdd(radiance,
                                    CMul(beta, in_direction(scene.hdri, ray.direction))))
                ELSE radiance]_vars

C2_Witness ==
    /\ pc = "return" /\ last.arm = "Miss" /\ last.bounce > 0
    /\ ~last.contributed /\ ~specular_bounce
    /\ ~CIsBlack(last.light) /\ ~CIsBlack(beta)

\* index of the area light whose shape is the strictly nearest hit of the
\* ray (0 when there is none); among area lights at equal distance the
\* first in scene order
NearestAreaLight(sc, outs) ==
    LET n == Len(sc.objects)
        lightHit(j) == sc.lights[j].type = "Area" /\ outs[n + j].tag = "Hit"
        best(j) ==
            /\ lightHit(j)
            /\ \A i \in 1..n :
                  outs[i].tag = "Hit" => RLt(outs[n + j].distance, outs[i].distance)
            /\ \A k \in 1..Len(sc.lights) :
                  lightHit(k) =>
                     \/ RLt(outs[n + j].distance, outs[n + k].distance)
                     \/ (outs[n + j].distance = outs[n + k].distance /\ j <= k)
        anyIgnored == \E k \in 1..ShapeCount(sc) : Consulted(sc, k) /\ outs[k].tag = "Ignored"
        cands == {j \in 1..Len(sc.lights) : best(j)}
    IN  IF anyIgnored \/ cands = {} THEN 0 ELSE CHOOSE j \in cands : TRUE

MaxLights == 3

\* light.kind().has(LightKind::AREA): only Light::Area has the AREA bit
is_area(light) == light.type = "Area"

\* positions, in order, of the lights kept by filter(|light| !light.is_area())
RECURSIVE NonAreaFrom(_, _)
NonAreaFrom(lights, i) ==
    IF i > Len(lights) THEN <<>>
    ELSE (IF is_area(lights[i]) THEN <<>> ELSE <<i>>) \o NonAreaFrom(lights, i + 1)

\* k is the draw of fastrand::usize(..num_lights); est[i] is the value
\* estimate_direct returns for the light at position i
sample_one_light(lights, est, k) ==
    LET nonArea == NonAreaFrom(lights, 1)
        num_lights == Len(nonArea)
        call == [op |-> "sample_one_light", num_lights |-> num_lights, draw |-> k,
                 light |-> 0, out |-> BLACK]
    IN  IF num_lights = 0 THEN call
        ELSE LET light == nonArea[k + 1]
                 pdf_scale == RDiv(One, I(Len(lights)))
             IN  [call EXCEPT !.light = light, !.out = CDivS(est[light], pdf_scale)]

\* scenes of up to MaxLights lights; the estimate of the light at position i
\* is a colour that identifies the light
LightInputs ==
    UNION {[1..n -> {[type |-> t] : t \in {"Point", "Direction", "Area"}}] : n \in 0..MaxLights}

EstimateInputs ==
    {[i \in 1..MaxLights |-> color(I(i), One, R(1, 2))],
     [i \in 1..MaxLights |-> color(R(1, 4), I(i), Zero)]}

InitLight ==
    /\ \E lights \in LightInputs, est \in EstimateInputs :
         lsample = [lights |-> lights, est |-> est, call |-> NoCall]
    /\ tiler = Idle /\ harness = Idle
    /\ dist = Idle /\ dsample = NoSample /\ ph = NoHeuristic
    /\ hit = Idle /\ bsdf = Idle /\ bcall = NoCall
    /\ pc = Idle /\ bounce_count = 0 /\ radiance = Idle /\ beta = Idle
    /\ specular_bounce = FALSE /\ scene = Idle /\ last = Idle
    /\ ray = Idle /\ shape_hits = Idle /\ nearest = Idle /\ intersections = 0

SampleOneLight ==
    /\ \E k \in 0..(IF Len(NonAreaFrom(lsample.lights, 1)) = 0 THEN 0
                    ELSE Len(NonAreaFrom(lsample.lights, 1)) - 1) :
         lsample' = [lsample EXCEPT !.call = sample_one_light(lsample.lights, lsample.est, k)]
    /\ UNCHANGED <<tiler, harness, distVars, ph, bsdfVars, pathVars>>

NextLight == SampleOneLight

SpecLight == InitLight /\ [][NextLight]_vars

NonAreaLights(lights) == {i \in 1..Len(lights) : lights[i].type # "Area"}

\* C11: sample_one_light picks one of the non-area lights, each by exactly
\* one value of the uniform draw, and returns that light's estimate_direct
\* result multiplied by the number of lights it was chosen among; it never
\* picks an area light and returns black when there is no non-area light.
C11_SampleOneLightScalesBySelectionCount ==
    lsample.call.op = "sample_one_light" =>
        LET chosenAmong == NonAreaLights(lsample.lights)
            n == Cardinality(chosenAmong)
        IN  IF n = 0 THEN lsample.call.out = BLACK /\ lsample.call.light = 0
            ELSE /\ lsample.call.light \in chosenAmong
                 /\ Cardinality({i \in chosenAmong : i < lsample.call.light})
                       = lsample.call.draw
                 /\ lsample.call.out = CScale(lsample.est[lsample.call.light], I(n))


\* ------------------------------------------------------------------------
\* ImageTileGenerator and ImageTile
\* ------------------------------------------------------------------------
TILE_SIZE == 16

\* tile_width (and tile_height) without the clipping to the image
TileExtent_unclipped(size, tile_pos) == TILE_SIZE

\* (width - tile_x).min(TILE_SIZE)
TileExtent(size, tile_pos) == Min(size - tile_pos, TILE_SIZE)

\* the while loop of ImageTileGenerator::new: the tiles in the order pushed
RECURSIVE TileGrid(_, _, _, _)
TileGrid(width, height, next_tile_x, next_tile_y) ==
    IF ~(next_tile_y < height /\ next_tile_x < width) THEN <<>>
    ELSE LET wrap == next_tile_x + TILE_SIZE >= width
         IN  <<[x |-> next_tile_x, y |-> next_tile_y,
                width |-> TileExtent(width, next_tile_x),
                height |-> TileExtent(height, next_tile_y)]>>
             \o TileGrid(width, height,
                         IF wrap THEN 0 ELSE next_tile_x + TILE_SIZE,
                         IF wrap THEN next_tile_y + TILE_SIZE ELSE next_tile_y)

\* fastrand::shuffle leaves some permutation perm of the pushed tiles
ImageTileGenerator_new(width, height, perm) ==
    [tiles |-> [i \in 1..Len(TileGrid(width, height, 0, 0)) |->
                    TileGrid(width, height, 0, 0)[perm[i]]]]

NoTile == [x |-> 0, y |-> 0, width |-> 0, height |-> 0, next_x |-> 0, next_y |-> 0]

\* self.tiles.pop()?: <<>> is None, otherwise <<generator', tile>>
get_tile(gen) ==
    IF Len(gen.tiles) = 0 THEN <<>>
    ELSE LET t == gen.tiles[Len(gen.tiles)]
         IN  <<[tiles |-> SubSeq(gen.tiles, 1, Len(gen.tiles) - 1)],
               [x |-> t.x, y |-> t.y, width |-> t.width, height |-> t.height,
                next_x |-> 0, next_y |-> 0]>>

\* ImageTile::next / next_tile: <<>> is None, otherwise
\* <<tile', index into the tile buffer, x, y>>
ImageTile_next(tile) ==
    IF tile.next_x >= tile.width \/ tile.next_y >= tile.height THEN <<>>
    ELSE LET wrap == tile.next_x + 1 >= tile.width
         IN  <<[tile EXCEPT !.next_x = IF wrap THEN 0 ELSE tile.next_x + 1,
                            !.next_y = IF wrap THEN tile.next_y + 1 ELSE tile.next_y],
               tile.next_x + tile.next_y * tile.width,
               tile.next_x + tile.x,
               tile.next_y + tile.y>>

\* image sizes and worker counts: empty images, images smaller than a tile,
\* exact multiples of the tile size and images with clipped edge tiles
TilerInputs ==
    {[width |-> 0, height |-> 5, workers |-> 2], [width |-> 5, height |-> 0, workers |-> 2],
     [width |-> 1, height |-> 1, workers |-> 2], [width |-> 10, height |-> 3, workers |-> 2],
     [width |-> 32, height |-> 1, workers |-> 2], [width |-> 33, height |-> 2, workers |-> 2],
     [width |-> 2, height |-> 33, workers |-> 2], [width |-> 16, height |-> 16, workers |-> 1],
     [width |-> 17, height |-> 17, workers |-> 1]}

InitTiler ==
    /\ \E img \in TilerInputs :
         \E perm \in Permutations(1..Len(TileGrid(img.width, img.height, 0, 0))) :
            tiler = [width |-> img.width, height |-> img.height,
                     generator |-> ImageTileGenerator_new(img.width, img.height, perm),
                     exhausted |-> FALSE,
                     held |-> [w \in 1..img.workers |-> NoTile],
                     count |-> [w \in 1..img.workers |-> 0],
                     handed |-> <<>>, finished |-> {},
                     seen |-> {}, yields |-> 0, strayed |-> FALSE]
    /\ lsample = Idle /\ harness = Idle
    /\ dist = Idle /\ dsample = NoSample /\ ph = NoHeuristic
    /\ hit = Idle /\ bsdf = Idle /\ bcall = NoCall
    /\ pc = Idle /\ bounce_count = 0 /\ radiance = Idle /\ beta = Idle
    /\ specular_bounce = FALSE /\ scene = Idle /\ last = Idle
    /\ ray = Idle /\ shape_hits = Idle /\ nearest = Idle /\ intersections = 0

\* a worker without a tile is given the result of get_tile
GetTile ==
    /\ ~tiler.exhausted
    /\ \E w \in DOMAIN tiler.held :
         /\ tiler.held[w] = NoTile
         /\ \E r \in {get_tile(tiler.generator)} :
              tiler' = IF r = <<>> THEN [tiler EXCEPT !.exhausted = TRUE]
                       ELSE [tiler EXCEPT !.generator = r[1],
                                          !.held[w] = r[2],
                                          !.count[w] = 0,
                                          !.handed = Append(@, [r[2] EXCEPT !.next_x = 0])]
    /\ UNCHANGED <<lsample, harness, distVars, ph, bsdfVars, pathVars>>

\* a worker calls next on its tile and gets a pixel
NextPixel ==
    /\ \E w \in DOMAIN tiler.held :
         /\ tiler.held[w] # NoTile
         /\ ImageTile_next(tiler.held[w]) # <<>>
         /\ \E r \in {ImageTile_next(tiler.held[w])} :
              tiler' = [tiler EXCEPT
                          !.held[w] = r[1],
                          !.count[w] = @ + 1,
                          !.seen = @ \cup {<<r[3], r[4]>>},
                          !.yields = @ + 1,
                          !.strayed = @ \/ ~(/\ r[3] >= tiler.held[w].x
                                             /\ r[3] < tiler.held[w].x + tiler.held[w].width
                                             /\ r[4] >= tiler.held[w].y
                                             /\ r[4] < tiler.held[w].y + tiler.held[w].height
                                             /\ r[2] < tiler.held[w].width * tiler.held[w].height)]
    /\ UNCHANGED <<lsample, harness, distVars, ph, bsdfVars, pathVars>>

\* next returns None: the worker is done with its tile
TileDone ==
    /\ \E w \in DOMAIN tiler.held :
         /\ tiler.held[w] # NoTile
         /\ ImageTile_next(tiler.held[w]) = <<>>
         /\ tiler' = [tiler EXCEPT
                        !.held[w] = NoTile,
                        !.finished = @ \cup {[x |-> tiler.held[w].x, y |-> tiler.held[w].y,
                                              pixels |-> tiler.count[w]]}]
    /\ UNCHANGED <<lsample, harness, distVars, ph, bsdfVars, pathVars>>

NextTiler == GetTile \/ NextPixel \/ TileDone

SpecTiler == InitTiler /\ [][NextTiler]_vars

ImagePixels == (0..(tiler.width - 1)) \X (0..(tiler.height - 1))

TilePixels(t) == (t.x..(t.x + t.width - 1)) \X (t.y..(t.y + t.height - 1))

\* C12: the tiles handed out by get_tile lie on the 16-pixel grid clipped to
\* the image, are at most 16x16, pairwise disjoint and handed out once; a
\* tile's iteration yields width*height pixels, all inside the tile; and
\* when get_tile has returned None and every tile is exhausted, every pixel
\* of the image has been visited exactly once.
C12_TilesPartitionImage ==
    /\ \A i \in DOMAIN tiler.handed :
          LET t == tiler.handed[i]
          IN  /\ t.x % 16 = 0 /\ t.y % 16 = 0
              /\ t.x < tiler.width /\ t.y < tiler.height
              /\ t.width = Min(16, tiler.width - t.x)
              /\ t.height = Min(16, tiler.height - t.y)
              /\ \A j \in DOMAIN tiler.handed :
                    j # i => TilePixels(t) \cap TilePixels(tiler.handed[j]) = {}
    /\ ~tiler.strayed
    /\ tiler.seen \subseteq ImagePixels
    /\ tiler.yields = Cardinality(tiler.seen)
    /\ \A f \in tiler.finished :
          \E i \in DOMAIN tiler.handed :
             /\ tiler.handed[i].x = f.x /\ tiler.handed[i].y = f.y
             /\ f.pixels = tiler.handed[i].width * tiler.handed[i].height
    /\ (tiler.exhausted /\ \A w \in DOMAIN tiler.held : tiler.held[w] = NoTile)
          => (tiler.seen = ImagePixels /\ tiler.yields = tiler.width * tiler.height)

C12_Witness ==
    /\ tiler.width = 17 /\ tiler.height = 17
    /\ tiler.exhausted /\ \A w \in DOMAIN tiler.held : tiler.held[w] = NoTile
    /\ Len(tiler.handed) = 4 /\ Cardinality(tiler.finished) = 4
    /\ tiler.yields = 289


\* ------------------------------------------------------------------------
\* Render harness (pbrtrs_main): seeding and dispatch of tiles
\* ------------------------------------------------------------------------
\* fastrand keeps one generator per thread.  A generator is a number below
\* RngMod; a draw steps the state and returns a value computed from it.
RngMod == 8
DrawsPerTile == 2

Rng_next(state) == (state * 5 + 3) % RngMod
Rng_value(state) == (Rng_next(state) * 3 + 1) % RngMod

\* the generator left by fastrand::seed(seed) when the worker skips the call
fastrand_seed_skipped(state, seed) == state

\* fastrand::seed(seed): the thread's generator restarts from the seed
fastrand_seed(state, seed) == seed % RngMod

\* fastrand::shuffle on n elements: for i in 1..n { swap(i, usize(..=i)) };
\* <<permutation, generator after the shuffle>>
RECURSIVE ShuffleFrom(_, _, _)
ShuffleFrom(perm, state, i) ==
    IF i >= Len(perm) THEN <<perm, state>>
    ELSE LET j == Rng_value(state) % (i + 1)
         IN  ShuffleFrom([perm EXCEPT ![i + 1] = perm[j + 1], ![j + 1] = perm[i + 1]],
                         Rng_next(state), i + 1)

\* the values a generator started from seed yields in its first n draws
RECURSIVE DrawsFrom(_, _)
DrawsFrom(state, n) ==
    IF n = 0 THEN <<>> ELSE <<Rng_value(state)>> \o DrawsFrom(Rng_next(state), n - 1)

NoJob == [index |-> 0, tile |-> NoTile, seed |-> 0, reseeds |-> 0, draws |-> <<>>]

\* global seeds, image sizes and the entropy-seeded generators the worker
\* threads start with
HarnessInputs ==
    {[seed |-> sd, width |-> w, height |-> 1, entropy |-> e] :
        sd \in {0, 3, 6}, w \in {0, 10, 17, 33, 49},
        e \in {<<1, 5>>, <<4, 4>>, <<7, 2>>}}

\* fastrand::seed(GLOBAL) and ImageTileGenerator::new on the main thread
InitHarness ==
    /\ \E cfg \in HarnessInputs :
       \E sh \in {ShuffleFrom([i \in 1..Len(TileGrid(cfg.width, cfg.height, 0, 0)) |-> i],
                              fastrand_seed(0, cfg.seed), 0)} :
          harness = [global_seed |-> cfg.seed, width |-> cfg.width, height |-> cfg.height,
                     main_rng |-> sh[2],
                     generator |-> ImageTileGenerator_new(cfg.width, cfg.height, sh[1]),
                     main_done |-> FALSE,
                     queue |-> <<>>, dispatched |-> <<>>,
                     rng |-> cfg.entropy,
                     running |-> [w \in DOMAIN cfg.entropy |-> NoJob],
                     rendered |-> {}]
    /\ lsample = Idle /\ tiler = Idle
    /\ dist = Idle /\ dsample = NoSample /\ ph = NoHeuristic
    /\ hit = Idle /\ bsdf = Idle /\ bcall = NoCall
    /\ pc = Idle /\ bounce_count = 0 /\ radiance = Idle /\ beta = Idle
    /\ specular_bounce = FALSE /\ scene = Idle /\ last = Idle
    /\ ray = Idle /\ shape_hits = Idle /\ nearest = Idle /\ intersections = 0

\* one iteration of `while let Some(tile) = get_tile(..)` on the main thread:
\* seed = fastrand::u64(..), pool.execute(closure)
Dispatch ==
    /\ ~harness.main_done
    /\ \E r \in {get_tile(harness.generator)} :
         harness' =
            IF r = <<>> THEN [harness EXCEPT !.main_done = TRUE]
            ELSE LET job == [NoJob EXCEPT !.index = Len(harness.dispatched) + 1,
                                          !.tile = r[2],
                                          !.seed = Rng_value(harness.main_rng)]
                 IN  [harness EXCEPT !.generator = r[1],
                                     !.main_rng = Rng_next(@),
                                     !.queue = Append(@, job),
                                     !.dispatched = Append(@, job)]
    /\ UNCHANGED <<lsample, tiler, distVars, ph, bsdfVars, pathVars>>

\* a free pool thread takes the oldest queued closure and runs
\* fastrand::seed(seed)
WorkerStart ==
    /\ harness.queue # <<>>
    /\ \E w \in DOMAIN harness.running :
         /\ harness.running[w] = NoJob
         /\ harness' = [harness EXCEPT
                          !.queue = Tail(@),
                          !.rng[w] = fastrand_seed(@, Head(harness.queue).seed),
                          !.running[w] = [Head(harness.queue) EXCEPT !.reseeds = 1]]
    /\ UNCHANGED <<lsample, tiler, distVars, ph, bsdfVars, pathVars>>

\* the worker draws a random number while rendering its tile
WorkerDraw ==
    /\ \E w \in DOMAIN harness.running :
         /\ harness.running[w] # NoJob
         /\ Len(harness.running[w].draws) < DrawsPerTile
         /\ harness' = [harness EXCEPT
                          !.rng[w] = Rng_next(@),
                          !.running[w].draws = Append(@, Rng_value(harness.rng[w]))]
    /\ UNCHANGED <<lsample, tiler, distVars, ph, bsdfVars, pathVars>>

\* the closure returns: the tile is rendered
WorkerFinish ==
    /\ \E w \in DOMAIN harness.running :
         /\ harness.running[w] # NoJob
         /\ Len(harness.running[w].draws) = DrawsPerTile
         /\ harness' = [harness EXCEPT
                          !.running[w] = NoJob,
                          !.rendered = @ \cup {[job |-> harness.running[w], worker |-> w]}]
    /\ UNCHANGED <<lsample, tiler, distVars, ph, bsdfVars, pathVars>>

NextHarness == Dispatch \/ WorkerStart \/ WorkerDraw \/ WorkerFinish

SpecHarness == InitHarness /\ [][NextHarness]_vars

\* the dispatch sequence of a run whose main thread executes alone
RECURSIVE SequentialDispatch(_, _, _)
SequentialDispatch(tiles, state, index) ==
    IF Len(tiles) = 0 THEN <<>>
    ELSE <<[NoJob EXCEPT !.index = index,
                         !.tile = get_tile([tiles |-> tiles])[2],
                         !.seed = Rng_value(state)]>>
         \o SequentialDispatch(SubSeq(tiles, 1, Len(tiles) - 1), Rng_next(state), index + 1)

ExpectedDispatch ==
    LET grid == TileGrid(harness.width, harness.height, 0, 0)
        sh == ShuffleFrom([i \in 1..Len(grid) |-> i], harness.global_seed % RngMod, 0)
    IN  SequentialDispatch([i \in 1..Len(grid) |-> grid[sh[1][i]]], sh[2], 1)

\* C13: the tiles are dispatched in an order, and each with a seed, fixed by
\* the global seed alone, whatever the scheduling of the workers and
\* whichever worker renders the tile; a worker re-seeds its generator once
\* at the start of each tile, so the random numbers a tile is rendered with
\* depend on its seed only.
C13_TileSeedsIndependentOfScheduling ==
    /\ harness.dispatched = SubSeq(ExpectedDispatch, 1, Len(harness.dispatched))
    /\ harness.main_done => harness.dispatched = ExpectedDispatch
    /\ \A w \in DOMAIN harness.running :
          harness.running[w] # NoJob =>
             LET job == harness.running[w]
             IN  /\ job.reseeds = 1
                 /\ [job EXCEPT !.reseeds = 0, !.draws = <<>>] = ExpectedDispatch[job.index]
                 /\ job.draws = DrawsFrom(job.seed % RngMod, Len(job.draws))
    /\ \A r \in harness.rendered :
          /\ r.job.reseeds = 1
          /\ [r.job EXCEPT !.reseeds = 0, !.draws = <<>>] = ExpectedDispatch[r.job.index]
          /\ r.job.draws = DrawsFrom(r.job.seed % RngMod, DrawsPerTile)

C13_Witness ==
    /\ harness.main_done /\ Len(harness.dispatched) = 3
    /\ Cardinality(harness.rendered) = 3
    /\ \E a, b \in harness.rendered :
          /\ a.worker = 1 /\ b.worker = 2 /\ a.job.index = b.job.index + 1
          /\ harness.rng[1] # harness.rng[2]
    /\ harness.dispatched[1].tile.x # 0


\* ------------------------------------------------------------------------
\* Russian roulette in ray_color
\* ------------------------------------------------------------------------
\* the uniform draws of the roulette test, k / RouletteGrid for k below
\* RouletteGrid; the share of draws with a given outcome is the measure of
\* the outcome to within one grid step
RouletteGrid == 20

\* how many of the RouletteGrid draws terminate a path whose updated
\* throughput is the given one
KillCount(throughput) ==
    Cardinality({k \in 0..(RouletteGrid - 1) :
                    RouletteBreak(RouletteStart + 1, throughput, R(k, RouletteGrid))})

\* a Hit iteration that reached the roulette test
RouletteApplied == last.arm = "Hit" /\ last.exit # "absorbed" /\ last.bounce > RouletteStart

\* C14: where roulette applies, with m the largest component of the updated
\* throughput, the draws that terminate the path have measure
\* 1 - min(m, 0.7) (to within one grid step); roulette is not applied at
\* bounces 0 to 3 and leaves the throughput of a surviving path unscaled.
C14_RouletteKillsWithOneMinusMinM07 ==
    /\ RouletteApplied =>
          LET m == max_value3(beta)
              p == RSub(One, IF RLt(m, R(7, 10)) THEN m ELSE R(7, 10))
              share == R(KillCount(beta), RouletteGrid)
          IN  RLe(RAbs(RSub(share, p)), R(1, RouletteGrid))
    /\ last.arm = "Hit" /\ last.bounce <= RouletteStart => last.exit # "roulette"

\* C15: for every throughput the draws that terminate the path cover at
\* most 0.3 of [0, 1) (to within one grid step).
C15_RouletteKillsAtMost30Percent ==
    RouletteApplied => RLe(R(KillCount(beta), RouletteGrid), RAdd(R(3, 10), R(1, RouletteGrid)))

\* ------------------------------------------------------------------------
\* Absorption and direct lighting at a surface hit
\* ------------------------------------------------------------------------
\* the step that executes the Hit arm
HitStep == pc = "match" /\ nearest.tag = "Hit" /\ last'.arm = "Hit"

\* C16: when the continuation sample of a hit has a zero colour or a zero
\* pdf, the Hit arm ends the path: the throughput and the ray are left as
\* they were, no further intersection is made, and the radiance is the one
\* accumulated before the hit plus this hit's direct lighting, if any.
C16_AbsorptionTerminatesWithAccumulatedRadiance ==
    [][/\ (HitStep /\ (CIsBlack(last'.f) \/ REq(last'.pdf, Zero))) =>
             /\ pc' = "return" /\ last'.exit = "absorbed"
             /\ beta' = beta /\ ray' = ray /\ bounce_count' = bounce_count
             /\ intersections' = intersections
             /\ radiance' = IF last'.direct
                            THEN CQuantize(CAdd(radiance, CMul(beta, last'.ld)))
                            ELSE radiance
             /\ ~IsNaN(radiance'[1]) /\ ~IsNaN(radiance'[2]) /\ ~IsNaN(radiance'[3])
       /\ (HitStep /\ last'.exit = "absorbed") => (CIsBlack(last'.f) \/ REq(last'.pdf, Zero))
       /\ pc = "return" => UNCHANGED vars]_vars

\* total internal reflection: the transmission term returned BLACK with pdf 1
C16_Witness ==
    /\ pc = "return" /\ last.exit = "absorbed"
    /\ has(last.sampled_kind, TRANSMISSION) /\ CIsBlack(last.f) /\ last.pdf = One
    /\ last.bounce > 0

\* C17: a Hit step adds throughput * direct-lighting estimate to the
\* radiance if and only if some term of the hit's BSDF has a kind without
\* the SPECULAR bit; when every term is SPECULAR the step leaves the
\* radiance as it was.
C17_DirectLightingIffNonSpecularTerm ==
    [][HitStep =>
          LET b == DisneyMaterial_compute_scattering(nearest, TRUE)
              non_specular == \E i \in 1..Len(b.bxdfs) : ~has(kind(b.bxdfs[i]), SPECULAR)
          IN  /\ last'.direct <=> non_specular
              /\ radiance' = IF non_specular
                             THEN CQuantize(CAdd(radiance, CMul(beta, last'.ld)))
                             ELSE radiance]_vars

\* a second hit on the smooth, fully metallic rectangle: its only term is
\* the SPECULAR microfacet lobe, the path carries throughput and no radiance
C17_Witness ==
    /\ last.arm = "Hit" /\ ~last.direct
    /\ has(last.sampled_kind, REFLECTION) /\ has(last.sampled_kind, SPECULAR)
    /\ last.bounce > 0 /\ radiance = BLACK /\ ~CIsBlack(beta)

\* ------------------------------------------------------------------------
\* BSDF::sample_f: combination of the sampled term with the other terms
\* ------------------------------------------------------------------------
\* the rule for a sample_f call c whose chosen term produced smp
\* (fields f, pdf, wi)
SampleFRule(c, smp) ==
    LET n == c.num_matching
        chosen == TermAt(bsdf, c.chosen)
        wo == world_to_normal(bsdf, c.wo_world)
        others == {i \in MatchingSet(bsdf, c.query) : i # c.chosen}
        all_pdf == PdfFold(bsdf, wo, smp.wi, c.query, 0)[2]
    IN  IF has(kind(chosen), SPECULAR)
        THEN c.pdf = smp.pdf /\ c.f = smp.f
        ELSE /\ REq(RMul(c.pdf, I(n)),
                    RAdd(smp.pdf, RSub(all_pdf, BxDF_pdf(chosen, wo, smp.wi))))
             /\ (others = {}) => c.pdf = smp.pdf
             /\ c.f = IF n > 1
                      THEN BSDF_f(bsdf, c.wo_world, normal_to_world(bsdf, smp.wi), c.query).f
                      ELSE smp.f

\* C18 as stated: with n >= 1 matching terms the returned pdf and colour
\* follow the rule from a sample of the chosen term, for every wo
C18_SampleFCombinesForEveryWo ==
    (bcall.op = "sample_f" /\ bcall.num_matching >= 1) =>
        \E rnd \in SamplerDraws :
            SampleFRule(bcall, BxDF_sample_f(TermAt(bsdf, bcall.chosen),
                                             world_to_normal(bsdf, bcall.wo_world),
                                             rnd, VZero, Zero, ALL))

\* C18: in BSDF::sample_f with n >= 1 matching terms and wo not tangent to
\* the shading plane (wo.z # 0): a chosen term without the SPECULAR bit
\* gives pdf = (its sampled pdf + the pdf(wo, wi) of every other matching
\* term) / n, and the colour is the reflect/transmit-filtered sum over the
\* matching terms exactly when n > 1 (the term's own colour when n = 1); a
\* SPECULAR chosen term gives its own pdf and colour unchanged.  With
\* wo.z = 0 no term is sampled and the result is black with pdf 0.
C18_SampleFCombinesUnlessGrazing ==
    (bcall.op = "sample_f" /\ bcall.num_matching >= 1) =>
        IF REq(world_to_normal(bsdf, bcall.wo_world)[3], Zero)
        THEN CIsBlack(bcall.f) /\ bcall.pdf = Zero /\ bcall.calls = <<>>
        ELSE SampleFRule(bcall, [f |-> bcall.term_f, pdf |-> bcall.term_pdf, wi |-> bcall.wi])

\* a non-specular term chosen among three matching terms, with a non-zero
\* pdf from another term and a recomputed colour that differs from the
\* term's own
C18_Witness ==
    /\ bcall.op = "sample_f" /\ bcall.num_matching = 3
    /\ ~has(kind(TermAt(bsdf, bcall.chosen)), SPECULAR)
    /\ bcall.pdf # bcall.term_pdf /\ ~REq(bcall.pdf, Zero)
    /\ bcall.f # bcall.term_f /\ ~CIsBlack(bcall.f)

\* ------------------------------------------------------------------------
\* BSDF::f: reflect / transmit filtering
\* ------------------------------------------------------------------------
\* the sum of f(wo, wi) over the terms with index in S
RECURSIVE TermSum(_, _, _, _)
TermSum(b, wo, wi, S) ==
    IF S = {} THEN BLACK
    ELSE LET i == CHOOSE k \in S : \A j \in S : k <= j
         IN  CAdd(BxDF_f(TermAt(b, i), wo, wi), TermSum(b, wo, wi, S \ {i}))

\* C19: BSDF::f(wo, wi, mask) is the sum of f over exactly the terms whose
\* kind matches the mask and that either have REFLECTION while
\* (wi.Ngeom)(wo.Ngeom) > 0 or have TRANSMISSION while the product is <= 0;
\* a REFLECTION-only term is not evaluated for directions on opposite sides
\* of the geometric normal, a TRANSMISSION-only term not for directions on
\* the same side.
C19_FSumsTermsOnMatchingSide ==
    bcall.op = "f" =>
        LET side == RMul(VDot(bcall.wi_world, bsdf.geom_normal),
                         VDot(bcall.wo_world, bsdf.geom_normal))
            terms == {i \in 0..(Len(bsdf.bxdfs) - 1) :
                        /\ BitAnd(kind(TermAt(bsdf, i)), bcall.query) = kind(TermAt(bsdf, i))
                        /\ \/ RGt(side, Zero) /\ BitAnd(kind(TermAt(bsdf, i)), REFLECTION) # 0
                           \/ RLe(side, Zero) /\ BitAnd(kind(TermAt(bsdf, i)), TRANSMISSION) # 0}
            evaluated == {bcall.calls[j].idx : j \in DOMAIN bcall.calls}
        IN  /\ evaluated = terms
            /\ Len(bcall.calls) = Cardinality(terms)
            /\ bcall.f = TermSum(bsdf, world_to_normal(bsdf, bcall.wo_world),
                                 world_to_normal(bsdf, bcall.wi_world), terms)
            /\ \A i \in evaluated :
                  /\ kind(TermAt(bsdf, i)) \in {REFLECTION, set(REFLECTION, DIFFUSE),
                                                set(REFLECTION, GLOSSY),
                                                set(set(REFLECTION, GLOSSY), SPECULAR)}
                        => RGt(side, Zero)
                  /\ kind(TermAt(bsdf, i)) = set(TRANSMISSION, SPECULAR) => RLe(side, Zero)

\* two of three terms pass the mask on the same side of the surface and
\* give a non-black sum
C19_Witness ==
    /\ bcall.op = "f" /\ Len(bsdf.bxdfs) = 3 /\ Len(bcall.calls) = 2
    /\ ~CIsBlack(bcall.f)
    /\ bcall.f # BxDF_f(TermAt(bsdf, bcall.calls[1].idx), bcall.calls[1].wo, bcall.calls[1].wi)

\* ------------------------------------------------------------------------
\* BxDFKind: matching of a term kind against a query kind
\* ------------------------------------------------------------------------
\* every 5-bit kind against every 5-bit query, and every material's BSDF
\* against every query
InitKind ==
    /\ \E k \in 0..ALL, q \in 0..ALL : hit = [kind |-> k, query |-> q]
    /\ \/ \E frame \in ShadingFrames, material \in MaterialInputs :
             bsdf = DisneyMaterial_compute_scattering(Intersection(frame, material), TRUE)
       \/ \E frame \in ShadingFrames :
             bsdf = EmptyMaterial_compute_scattering(Intersection(frame, "none"))
    /\ bcall = NoCall
    /\ dist = Idle /\ dsample = NoSample /\ ph = NoHeuristic
    /\ pc = Idle /\ bounce_count = 0 /\ radiance = Idle /\ beta = Idle
    /\ specular_bounce = FALSE /\ scene = Idle /\ last = Idle
    /\ ray = Idle /\ shape_hits = Idle /\ nearest = Idle /\ intersections = 0
    /\ lsample = Idle /\ tiler = Idle /\ harness = Idle

\* kind.matches(query)
KindMatches ==
    /\ bcall' = [op |-> "matches", panic |-> FALSE, calls |-> <<>>,
                 out |-> matches(hit.kind, hit.query)]
    /\ UNCHANGED <<bsdf, hit, distVars, ph, renderVars, pathVars>>

NextKind == KindMatches \/ NumComponents

SpecKind == InitKind /\ [][NextKind]_vars

\* the flags set in a kind
KindBits(k) ==
    {b \in {REFLECTION, TRANSMISSION, DIFFUSE, GLOSSY, SPECULAR} : (k \div b) % 2 = 1}

\* C20: k.matches(q) is true iff every bit set in k is set in q; every kind
\* matches ALL, no kind with SPECULAR matches ALL.unset(SPECULAR), and
\* num_components(q) is the number of terms whose kind is a subset of q.
C20_MatchesIsSubsetOfQuery ==
    /\ bcall.op = "matches" =>
          /\ bcall.out <=> (KindBits(hit.kind) \subseteq KindBits(hit.query))
          /\ hit.query = ALL => bcall.out
          /\ (hit.query = unset(ALL, SPECULAR) /\ SPECULAR \in KindBits(hit.kind)) => ~bcall.out
    /\ bcall.op = "num_components" =>
          bcall.out = Cardinality({i \in 1..Len(bsdf.bxdfs) :
                                      KindBits(kind(bsdf.bxdfs[i])) \subseteq KindBits(bcall.query)})

\* a kind that is a proper, non-empty subset of a query other than ALL
C20_Witness ==
    /\ bcall.op = "matches" /\ bcall.out
    /\ hit.kind = set(REFLECTION, DIFFUSE)
    /\ hit.query = unset(unset(ALL, SPECULAR), TRANSMISSION)

\* ------------------------------------------------------------------------
\* Directions handed to the BxDF terms
\* ------------------------------------------------------------------------
\* C21: every term-level f, sample_f or pdf made by BSDF::f, BSDF::sample_f
\* or BSDF::pdf receives the directions of the call converted with
\* world_to_normal, never the world-space directions themselves, and
\* sample_f returns the sampled direction converted back with
\* normal_to_world.
C21_TermsReceiveLocalDirections ==
    bcall.op \in {"f", "sample_f", "pdf"} =>
        LET wo == world_to_normal(bsdf, bcall.wo_world)
        IN  /\ \A j \in DOMAIN bcall.calls :
                  /\ bcall.calls[j].wo = wo
                  /\ bcall.op \in {"f", "pdf"} =>
                        bcall.calls[j].wi = world_to_normal(bsdf, bcall.wi_world)
                  /\ bcall.op = "sample_f" => bcall.calls[j].wi = bcall.wi
            /\ (bcall.op = "sample_f" /\ bcall.calls # <<>>) =>
                  bcall.wi_world = normal_to_world(bsdf, bcall.wi)

\* ------------------------------------------------------------------------
\* binary_search_cdf on arbitrary non-decreasing arrays
\* ------------------------------------------------------------------------
CdfDen == 4

\* arrays of n + 1 entries k / CdfDen, cdf[0] = 0, non-decreasing
CdfInputs ==
    UNION {{c \in [0..n -> {R(k, CdfDen) : k \in 0..CdfDen}] :
               /\ c[0] = Zero
               /\ \A i \in 0..(n - 1) : RLe(c[i], c[i + 1])} : n \in 1..MaxN}

\* searched values: below 0, on the entries, between them, and 1 and above
SearchValues == {R(k, 2 * CdfDen) : k \in (-1)..(2 * CdfDen + 1)}

InitSearch ==
    /\ \E c \in CdfInputs : dist = [cdf |-> c]
    /\ dsample = NoSample
    /\ ph = NoHeuristic /\ hit = Idle /\ bsdf = Idle /\ bcall = NoCall
    /\ pc = Idle /\ bounce_count = 0 /\ radiance = Idle /\ beta = Idle
    /\ specular_bounce = FALSE /\ scene = Idle /\ last = Idle
    /\ ray = Idle /\ shape_hits = Idle /\ nearest = Idle /\ intersections = 0
    /\ lsample = Idle /\ tiler = Idle /\ harness = Idle

BinarySearch ==
    /\ \E u \in SearchValues :
         dsample' = [NoSample EXCEPT !.op = "binary_search_cdf", !.u = u,
                                     !.offset = binary_search_cdf(dist.cdf, u)]
    /\ UNCHANGED <<dist, ph, renderVars, bsdfVars, pathVars>>

SpecSearch == InitSearch /\ [][BinarySearch]_vars

\* C22: for a non-decreasing array of n + 1 entries with cdf[0] = 0 and any
\* value u, binary_search_cdf returns the largest index i in 0..n-1 with
\* cdf[i] <= u, 0 when u is below every entry and n - 1 when u >= cdf[n-1];
\* the result is a bucket index, so cdf[i + 1] exists.
C22_BinarySearchFindsRightmostBucket ==
    dsample.op = "binary_search_cdf" =>
        LET n == CdfLen(dist.cdf) - 1
            below == {i \in 0..(n - 1) : RLe(dist.cdf[i], dsample.u)}
        IN  /\ dsample.offset \in 0..(n - 1)
            /\ (dsample.offset + 1) \in DOMAIN dist.cdf
            /\ IF below = {} THEN dsample.offset = 0
               ELSE /\ dsample.offset \in below
                    /\ \A i \in below : i <= dsample.offset
            /\ RLe(dist.cdf[n - 1], dsample.u) => dsample.offset = n - 1

\* a flat stretch of the array: the rightmost of the equal entries is returned
C22_Witness ==
    /\ dsample.op = "binary_search_cdf" /\ CdfLen(dist.cdf) = 5
    /\ dist.cdf[1] = dist.cdf[2] /\ RLt(dist.cdf[2], dist.cdf[3])
    /\ dsample.u = dist.cdf[2] /\ dsample.offset = 2

\* ------------------------------------------------------------------------
\* Distribution2D
\* ------------------------------------------------------------------------
\* f is a function from 0..rows-1 to rows, each a function from 0..cols-1
Distribution2D_new(f) ==
    LET p_conditional_v == [v \in DOMAIN f |-> Distribution1D_new(f[v])]
    IN  [p_conditional_v |-> p_conditional_v,
         p_marginal |-> Distribution1D_new([v \in DOMAIN f |-> p_conditional_v[v].integral])]

\* (x * count as Scalar) as usize, clamped to 0..count-1; the cast of a NaN
\* or of a negative value is 0
BucketOf(x, n) ==
    IF IsNaN(x) \/ RLt(x, Zero) THEN 0
    ELSE IF x[2] = 0 THEN n - 1
    ELSE Clamp(RFloor(RMul(x, I(n))), 0, n - 1)

Distribution2D_pdf(d, u) ==
    LET iu == BucketOf(u[1], count(d.p_conditional_v[0]))
        iv == BucketOf(u[2], count(d.p_marginal))
    IN  [iu |-> iu, iv |-> iv,
         pdf |-> RDiv(d.p_conditional_v[iv].func[iu], d.p_marginal.integral)]

\* the conditional distribution sampled after the marginal selected row v
ConditionalRow_first(d, v) == 0

ConditionalRow(d, v) == v

\* u[1] is the code's u[0], u[2] its u[1]
Distribution2D_sample_continuous(d, u) ==
    LET m == sample_continuous(d.p_marginal, u[2])
        v == m.offset
        row == ConditionalRow(d, v)
        c == sample_continuous(d.p_conditional_v[row], u[1])
    IN  [op |-> "sample_continuous", u |-> u, panic |-> m.panic \/ c.panic,
         v |-> v, row |-> row, col |-> c.offset,
         pdf_0 |-> c.pdf, pdf_1 |-> m.pdf, pdf |-> RMul(c.pdf, m.pdf),
         point |-> <<c.x, m.x>>, looked_up |-> FALSE, lookup |-> [iu |-> 0, iv |-> 0, pdf |-> Zero]]

\* tables of 1 x 1 up to 2 x 2 and 1 x 3 samples with values 0, 1 and 2
TableInputs ==
    UNION {[0..(shape[1] - 1) -> [0..(shape[2] - 1) -> {Zero, One, I(2)}]] :
              shape \in {<<1, 1>>, <<1, 2>>, <<2, 1>>, <<2, 2>>, <<1, 3>>}}

Init2D ==
    /\ \E f \in TableInputs : dist = Distribution2D_new(f)
    /\ dsample = NoSample
    /\ ph = NoHeuristic /\ hit = Idle /\ bsdf = Idle /\ bcall = NoCall
    /\ pc = Idle /\ bounce_count = 0 /\ radiance = Idle /\ beta = Idle
    /\ specular_bounce = FALSE /\ scene = Idle /\ last = Idle
    /\ ray = Idle /\ shape_hits = Idle /\ nearest = Idle /\ intersections = 0
    /\ lsample = Idle /\ tiler = Idle /\ harness = Idle

\* distribution.sample_continuous(u, &mut map_pdf)
Sample2D ==
    /\ \E u0, u1 \in {R(k, 4) : k \in 0..3} :
          dsample' = Distribution2D_sample_continuous(dist, <<u0, u1>>)
    /\ UNCHANGED <<dist, ph, renderVars, bsdfVars, pathVars>>

\* distribution.pdf(point) at the point the last sample returned
Pdf2D ==
    /\ dsample.op = "sample_continuous" /\ ~dsample.panic /\ ~dsample.looked_up
    /\ dsample' = [dsample EXCEPT !.looked_up = TRUE,
                                  !.lookup = Distribution2D_pdf(dist, dsample.point)]
    /\ UNCHANGED <<dist, ph, renderVars, bsdfVars, pathVars>>

Next2D == Sample2D \/ Pdf2D

Spec2D == Init2D /\ [][Next2D]_vars

\* C23: sample_continuous selects the row with the marginal distribution
\* and u[1], samples the conditional distribution of that row with u[0],
\* and reports the product of the two 1D pdfs, which is
\* func[row][col] / (marginal integral) when the row's integral is positive.
C23_SamplesMarginalThenItsConditional ==
    dsample.op = "sample_continuous" =>
        LET m == sample_continuous(dist.p_marginal, dsample.u[2])
            c == sample_continuous(dist.p_conditional_v[m.offset], dsample.u[1])
        IN  /\ ~dsample.panic
            /\ dsample.v = m.offset /\ dsample.row = dsample.v
            /\ dsample.col = c.offset
            /\ dsample.point = <<c.x, m.x>>
            /\ dsample.pdf = RMul(c.pdf, m.pdf)
            /\ \A v \in DOMAIN dist.p_conditional_v :
                  dist.p_marginal.func[v] = dist.p_conditional_v[v].integral
            /\ RGt(dist.p_conditional_v[dsample.row].integral, Zero) =>
                  REq(RMul(dsample.pdf, dist.p_marginal.integral),
                      dist.p_conditional_v[dsample.row].func[dsample.col])

\* the second row is selected and its two columns differ
C23_Witness ==
    /\ dsample.op = "sample_continuous" /\ dsample.row = 1 /\ dsample.col = 1
    /\ count(dist.p_marginal) = 2
    /\ dist.p_conditional_v[0].func # dist.p_conditional_v[1].func
    /\ dist.p_conditional_v[1].func[0] # dist.p_conditional_v[1].func[1]
    /\ RGt(dsample.pdf, Zero)

\* C28: over a table whose rows all have a positive integral,
\* Distribution2D::pdf at the point returned by sample_continuous(u) is the
\* pdf sample_continuous reported: the point lies in the selected
\* (row, column) bucket.
C28_PdfAtSampledPointIsReportedPdf ==
    (/\ dsample.op = "sample_continuous" /\ dsample.looked_up
     /\ \A v \in DOMAIN dist.p_conditional_v : RGt(dist.p_conditional_v[v].integral, Zero))
        => /\ dsample.lookup.iv = dsample.row /\ dsample.lookup.iu = dsample.col
           /\ dsample.lookup.pdf = dsample.pdf

\* C29: the pdfs reported by Distribution1D::sample_continuous and by
\* Distribution2D::sample_continuous and pdf are finite, non-negative
\* numbers for every table and every u in [0, 1), all-zero tables included,
\* so that a zero-density sample has map_pdf == 0.
C29_PdfsAreFiniteAndNonNegative ==
    dsample.op = "sample_continuous" =>
        LET WellDefined(x) == ~IsNaN(x) /\ x[2] # 0 /\ RLe(Zero, x)
        IN  /\ WellDefined(dsample.pdf_0) /\ WellDefined(dsample.pdf_1)
            /\ WellDefined(dsample.pdf)
            /\ dsample.looked_up => WellDefined(dsample.lookup.pdf)
            /\ REq(dist.p_conditional_v[dsample.row].func[dsample.col], Zero)
                  => REq(dsample.pdf, Zero)

\* ------------------------------------------------------------------------
\* estimate_direct
\* ------------------------------------------------------------------------
is_delta_never(light) == FALSE

\* kind().has(DELTA_POSITION) || kind().has(DELTA_DIRECTION): point and spot
\* lights are DELTA_POSITION, directional lights DELTA_DIRECTION
is_delta(light) == light.type \in {"Point", "Spot", "Direction"}

\* o holds the outcomes of the calls estimate_direct makes: li, light_pdf
\* (light.sample_li), shadow_miss (scene.intersect of the shadow ray), f, cos
\* (bsdf.f and |wi . n|), scattering_pdf (bsdf.pdf), and for the BSDF
\* strategy sf, scos, spdf, sampled_specular (bsdf.sample_f), pdf_li, miss2
\* and le.  The result is the estimate with the calls made, in order.
estimate_direct(light, o) ==
    LET lit == RGt(o.light_pdf, Zero) /\ o.li # BLACK
        visible == lit /\ o.shadow_miss
        f == CScale(o.f, o.cos)
        use1 == visible /\ f # BLACK
        weight1 == IF is_delta(light) THEN One
                   ELSE power_heuristic(One, o.light_pdf, One, o.scattering_pdf)
        ld1 == IF use1 THEN CDivS(CScale(CMul(f, o.li), weight1), o.light_pdf) ELSE BLACK
        calls1 == <<"sample_li">> \o (IF lit THEN <<"intersect">> ELSE <<>>)
                  \o (IF visible THEN <<"bsdf.f", "bsdf.pdf">> ELSE <<>>)
                  \o (IF use1 /\ ~is_delta(light) THEN <<"power_heuristic">> ELSE <<>>)
        f2 == CScale(o.sf, o.scos)
        go2 == f2 # BLACK /\ RGt(o.spdf, Zero)
        early == go2 /\ ~o.sampled_specular /\ REq(o.pdf_li, Zero)
        weight2 == IF o.sampled_specular THEN One
                   ELSE power_heuristic(One, o.spdf, One, o.pdf_li)
        use2 == go2 /\ ~early /\ o.miss2 /\ o.le # BLACK
        ld2 == IF use2 THEN CAdd(ld1, CDivS(CScale(CMul(f2, o.le), weight2), o.spdf)) ELSE ld1
        calls2 == <<"bsdf.sample_f">>
                  \o (IF go2 /\ ~o.sampled_specular THEN <<"pdf_li">> ELSE <<>>)
                  \o (IF go2 /\ ~o.sampled_specular /\ ~early THEN <<"power_heuristic">> ELSE <<>>)
                  \o (IF go2 /\ ~early THEN <<"intersect">> ELSE <<>>)
                  \o (IF go2 /\ ~early /\ o.miss2 THEN <<"le">> ELSE <<>>)
    IN  IF is_delta(light)
        THEN [op |-> "estimate_direct", o |-> o, ld |-> ld1, calls |-> calls1, weight |-> weight1]
        ELSE [op |-> "estimate_direct", o |-> o, ld |-> ld2, calls |-> calls1 \o calls2,
              weight |-> weight1]

InitDirect ==
    /\ \E t \in {"Point", "Spot", "Direction", "Area", "Hdri"} :
          lsample = [light |-> [type |-> t], call |-> NoCall]
    /\ tiler = Idle /\ harness = Idle
    /\ dist = Idle /\ dsample = NoSample /\ ph = NoHeuristic
    /\ hit = Idle /\ bsdf = Idle /\ bcall = NoCall
    /\ pc = Idle /\ bounce_count = 0 /\ radiance = Idle /\ beta = Idle
    /\ specular_bounce = FALSE /\ scene = Idle /\ last = Idle
    /\ ray = Idle /\ shape_hits = Idle /\ nearest = Idle /\ intersections = 0

\* one call of estimate_direct for the light
EstimateDirect ==
    /\ lsample.call = NoCall
    /\ \E li \in {BLACK, color(I(2), One, One)}, light_pdf \in {Zero, R(1, 2), One},
          shadow_miss \in BOOLEAN, f \in {BLACK, color(R(1, 2), R(1, 2), One)},
          cos \in {Zero, R(1, 2)}, scattering_pdf \in {Zero, R(1, 2)},
          smp \in {[sf |-> BLACK, spdf |-> Zero, sampled_specular |-> FALSE],
                   [sf |-> WHITE, spdf |-> One, sampled_specular |-> TRUE],
                   [sf |-> color(One, R(1, 2), Zero), spdf |-> R(1, 2), sampled_specular |-> FALSE]},
          pdf_li \in {Zero, One}, miss2 \in BOOLEAN, le \in {BLACK, WHITE} :
          lsample' = [lsample EXCEPT !.call =
             estimate_direct(lsample.light,
                [li |-> li, light_pdf |-> light_pdf, shadow_miss |-> shadow_miss,
                 f |-> f, cos |-> cos, scattering_pdf |-> scattering_pdf,
                 sf |-> smp.sf, scos |-> R(1, 2), spdf |-> smp.spdf,
                 sampled_specular |-> smp.sampled_specular,
                 pdf_li |-> pdf_li, miss2 |-> miss2, le |-> le])]
    /\ UNCHANGED <<tiler, harness, distVars, ph, bsdfVars, pathVars>>

SpecDirect == InitDirect /\ [][EstimateDirect]_vars

\* C24: for a point, spot or directional light estimate_direct makes no
\* bsdf.sample_f, pdf_li or le call and computes no MIS weight: the result
\* is f * Li * |cos| / lightPdf when the light sample has a positive pdf and
\* a non-black radiance, the shadow ray misses and f is non-black, and
\* black otherwise.  For the other lights the light-sampling term carries
\* the weight power_heuristic(1, lightPdf, 1, scatterPdf).
C24_DeltaLightsSkipMIS ==
    lsample.call.op = "estimate_direct" =>
        LET o == lsample.call.o
            called == {lsample.call.calls[j] : j \in DOMAIN lsample.call.calls}
            unweighted == CDivS(CMul(CScale(o.f, o.cos), o.li), o.light_pdf)
            contributes == /\ RGt(o.light_pdf, Zero) /\ o.li # BLACK /\ o.shadow_miss
                           /\ o.f # BLACK
        IN  IF lsample.light.type \in {"Point", "Spot", "Direction"}
            THEN /\ called \cap {"bsdf.sample_f", "pdf_li", "le", "power_heuristic"} = {}
                 /\ lsample.call.ld = IF contributes THEN unweighted ELSE BLACK
            ELSE /\ "bsdf.sample_f" \in called
                 /\ (contributes /\ RGt(o.cos, Zero) /\ lsample.call.calls[Len(lsample.call.calls)] = "bsdf.sample_f")
                       => lsample.call.ld =
                             CScale(unweighted,
                                    LET a == RMul(o.light_pdf, o.light_pdf)
                                        b == RMul(o.scattering_pdf, o.scattering_pdf)
                                    IN  RDiv(a, RAdd(a, b)))

C24_Witness ==
    /\ lsample.call.op = "estimate_direct" /\ lsample.light.type = "Spot"
    /\ lsample.call.o.light_pdf = R(1, 2) /\ lsample.call.o.scattering_pdf = R(1, 2)
    /\ lsample.call.o.sf = WHITE /\ lsample.call.o.miss2 /\ lsample.call.o.le = WHITE
    /\ lsample.call.ld = color(One, R(1, 2), One)

\* ------------------------------------------------------------------------
\* DisneyMaterial::compute_scattering: the terms of the BSDF
\* ------------------------------------------------------------------------
InitMaterial ==
    /\ \E frame \in ShadingFrames, lobes \in BOOLEAN,
          metallic \in {Zero, R(1, 2), One}, roughness \in {Zero, R(1, 2)},
          clearcoat \in {Zero, One}, transmission \in {Zero, R(1, 2), One} :
          hit = ShadingRequest(
                   Intersection(frame, SampledDisneyMaterial(WHITE, metallic, roughness,
                                                             clearcoat, R(1, 2), transmission,
                                                             R(3, 2))),
                   "Disney", lobes, VZero, VZero, ALL)
    /\ bsdf = Idle /\ bcall = NoCall
    /\ dist = Idle /\ dsample = NoSample /\ ph = NoHeuristic
    /\ pc = Idle /\ bounce_count = 0 /\ radiance = Idle /\ beta = Idle
    /\ specular_bounce = FALSE /\ scene = Idle /\ last = Idle
    /\ ray = Idle /\ shape_hits = Idle /\ nearest = Idle /\ intersections = 0
    /\ lsample = Idle /\ tiler = Idle /\ harness = Idle

ComputeScattering ==
    /\ bcall = NoCall
    /\ bsdf' = DisneyMaterial_compute_scattering(hit.si, hit.allow_multiple_lobes)
    /\ bcall' = [NoCall EXCEPT !.op = "compute_scattering"]
    /\ UNCHANGED <<hit, distVars, ph, renderVars, pathVars>>

SpecMaterial == InitMaterial /\ [][ComputeScattering]_vars

\* C25: with transmission > 0 the BSDF has the specular transmission term
\* alone, whatever the other parameters; otherwise it has the diffuse term
\* iff metallic # 1, then the microfacet specular term, then the clearcoat
\* term iff allow_multiple_lobes and clearcoat # 0: between 1 and 3 terms,
\* below the capacity of 8.
C25_DisneyTerms ==
    bcall.op = "compute_scattering" =>
        LET m == hit.si.sampled_material
            types == [i \in 1..Len(bsdf.bxdfs) |-> bsdf.bxdfs[i].type]
        IN  /\ types =
                 IF RGt(m.transmission, Zero) THEN <<"TransmissionSpecular">>
                 ELSE (IF m.metallic # One THEN <<"Lambertian">> ELSE <<>>)
                      \o <<"MicrofacetReflection">>
                      \o (IF hit.allow_multiple_lobes /\ m.clearcoat # Zero
                          THEN <<"MicrofacetReflection">> ELSE <<>>)
            /\ Len(bsdf.bxdfs) \in 1..3
            /\ Len(bsdf.bxdfs) <= 8

\* transmission short-circuits a material that would otherwise have three terms
C25_Witness ==
    /\ bcall.op = "compute_scattering" /\ Len(bsdf.bxdfs) = 1
    /\ hit.si.sampled_material.transmission = R(1, 2)
    /\ hit.si.sampled_material.metallic = R(1, 2)
    /\ hit.si.sampled_material.clearcoat = One /\ hit.allow_multiple_lobes

\* ------------------------------------------------------------------------
\* main: render jobs, the pool_ender thread and the image writer loop
\* ------------------------------------------------------------------------
\* mpsc messages: Some(tile) and None
SomeTile(t) == [some |-> TRUE, tile |-> t]

EndOfRender == [some |-> FALSE, tile |-> NoTile]

WriterInputs ==
    {[width |-> 0, height |-> 5, threads |-> 2], [width |-> 1, height |-> 1, threads |-> 2],
     [width |-> 17, height |-> 2, threads |-> 2], [width |-> 33, height |-> 1, threads |-> 1],
     [width |-> 33, height |-> 1, threads |-> 2], [width |-> 33, height |-> 1, threads |-> 3]}

\* ImageTileGenerator::new, threadpool::Builder::build, mpsc::channel
InitWriter ==
    /\ \E cfg \in WriterInputs :
       \E perm \in {q \in [1..Len(TileGrid(cfg.width, cfg.height, 0, 0)) ->
                             1..Len(TileGrid(cfg.width, cfg.height, 0, 0))] :
                       \A a, b \in DOMAIN q : q[a] = q[b] => a = b} :
          harness = [width |-> cfg.width, height |-> cfg.height,
                     generator |-> ImageTileGenerator_new(cfg.width, cfg.height, perm),
                     main |-> "dispatch",
                     queue |-> <<>>,
                     running |-> [w \in 1..cfg.threads |-> NoTile],
                     sent |-> [w \in 1..cfg.threads |-> FALSE],
                     channel |-> <<>>,
                     ender |-> "unspawned",
                     num_tiles |-> 0,
                     received |-> <<>>,
                     output_image |-> [px \in (0..(cfg.width - 1)) \X (0..(cfg.height - 1))
                                          |-> <<>>]]
    /\ lsample = Idle /\ tiler = Idle
    /\ dist = Idle /\ dsample = NoSample /\ ph = NoHeuristic
    /\ hit = Idle /\ bsdf = Idle /\ bcall = NoCall
    /\ pc = Idle /\ bounce_count = 0 /\ radiance = Idle /\ beta = Idle
    /\ specular_bounce = FALSE /\ scene = Idle /\ last = Idle
    /\ ray = Idle /\ shape_hits = Idle /\ nearest = Idle /\ intersections = 0

\* one iteration of `while let Some(tile) = get_tile(..)`: pool.execute(closure);
\* after the loop the main thread spawns pool_ender and enters the writer loop
ExecuteTile ==
    /\ harness.main = "dispatch"
    /\ \E r \in {get_tile(harness.generator)} :
         harness' =
            IF r = <<>> THEN [harness EXCEPT !.main = "write", !.ender = "join"]
            ELSE [harness EXCEPT !.generator = r[1], !.queue = Append(@, r[2])]
    /\ UNCHANGED <<lsample, tiler, distVars, ph, bsdfVars, pathVars>>

\* an idle pool thread takes the oldest queued closure
JobTake ==
    /\ \E w \in DOMAIN harness.running :
         /\ harness.running[w] = NoTile
         /\ Len(harness.queue) > 0
         /\ harness' = [harness EXCEPT !.running[w] = Head(harness.queue),
                                       !.sent[w] = FALSE,
                                       !.queue = Tail(@)]
    /\ UNCHANGED <<lsample, tiler, distVars, ph, bsdfVars, pathVars>>

\* the closure body: render every pixel of the tile, then
\* image_writer_tx.send(Some(tile))
JobRenderSend ==
    /\ \E w \in DOMAIN harness.running :
         /\ harness.running[w] # NoTile
         /\ ~harness.sent[w]
         /\ harness' = [harness EXCEPT !.sent[w] = TRUE,
                                       !.channel = Append(@, SomeTile(harness.running[w]))]
    /\ UNCHANGED <<lsample, tiler, distVars, ph, bsdfVars, pathVars>>

\* the closure returns and the pool thread becomes idle
JobEnd ==
    /\ \E w \in DOMAIN harness.running :
         /\ harness.running[w] # NoTile
         /\ harness.sent[w]
         /\ harness' = [harness EXCEPT !.running[w] = NoTile, !.sent[w] = FALSE]
    /\ UNCHANGED <<lsample, tiler, distVars, ph, bsdfVars, pathVars>>

pool_join_queue_only(h) == Len(h.queue) = 0

\* pool.join() returns when no job is queued and no job is running
pool_join(h) == Len(h.queue) = 0 /\ \A w \in DOMAIN h.running : h.running[w] = NoTile

\* pool_ender: pool.join(); image_writer_tx.send(None)
PoolEnder ==
    /\ harness.ender = "join"
    /\ pool_join(harness)
    /\ harness' = [harness EXCEPT !.ender = "done", !.channel = Append(@, EndOfRender)]
    /\ UNCHANGED <<lsample, tiler, distVars, ph, bsdfVars, pathVars>>

\* one iteration of `while let Some(tile) = image_writer_rx.recv().unwrap()`:
\* put_pixel for every pixel of the tile, or leave the loop on None
WriterRecv ==
    /\ harness.main = "write"
    /\ Len(harness.channel) > 0
    /\ \E msg \in {Head(harness.channel)} :
         harness' =
            IF msg = EndOfRender
            THEN [harness EXCEPT !.channel = Tail(@), !.main = "done"]
            ELSE [harness EXCEPT
                    !.channel = Tail(@),
                    !.num_tiles = @ + 1,
                    !.received = Append(@, msg.tile),
                    !.output_image =
                        [px \in DOMAIN @ |->
                            IF px \in TilePixels(msg.tile)
                            THEN Append(@[px], <<msg.tile.x, msg.tile.y>>) ELSE @[px]]]
    /\ UNCHANGED <<lsample, tiler, distVars, ph, bsdfVars, pathVars>>

NextWriter == ExecuteTile \/ JobTake \/ JobRenderSend \/ JobEnd \/ PoolEnder \/ WriterRecv

SpecWriter == InitWriter /\ [][NextWriter]_vars

\* every thread that can run is eventually scheduled
SpecWriterFair == SpecWriter /\ WF_vars(NextWriter)

WriterTiles == TileGrid(harness.width, harness.height, 0, 0)

\* tiles delivered to the writer so far, in channel order
Delivered == [i \in DOMAIN harness.received |-> SomeTile(harness.received[i])] \o harness.channel

WriterSafe ==
    /\ \A i, j \in DOMAIN Delivered :
          (Delivered[i] = Delivered[j] /\ Delivered[i] # EndOfRender) => i = j
    /\ \A i \in DOMAIN Delivered :
          Delivered[i] = EndOfRender =>
             /\ i = Len(Delivered)
             /\ \A k \in DOMAIN WriterTiles :
                   \E j \in 1..(i - 1) :
                      /\ Delivered[j].tile.x = WriterTiles[k].x
                      /\ Delivered[j].tile.y = WriterTiles[k].y
    /\ harness.main = "done" =>
          /\ harness.num_tiles = Len(WriterTiles)
          /\ \A px \in DOMAIN harness.output_image :
                /\ Len(harness.output_image[px]) = 1
                /\ \E t \in {harness.received[k] : k \in DOMAIN harness.received} :
                      /\ px \in TilePixels(t)
                      /\ harness.output_image[px][1] = <<t.x, t.y>>

\* C26: in every interleaving each tile reaches the writer once, None comes
\* after all tiles, the writer loop terminates, and at that point every
\* pixel of the output image has been written once with its tile's value.
C26_WriterReceivesEveryTileThenStops == []WriterSafe /\ <>(harness.main = "done")

\* the writer has left its loop after three tiles rendered on two threads
C26_Witness ==
    /\ harness.main = "done" /\ harness.num_tiles = 3
    /\ Len(harness.running) = 2

\* ------------------------------------------------------------------------
\* the scratch arena of the render closure
\* ------------------------------------------------------------------------
\* materials whose BSDFs have one, two and three terms
ArenaMaterials ==
    {SampledDisneyMaterial(WHITE, One, Zero, Zero, Zero, One, I(2)),
     SampledDisneyMaterial(BLACK, Zero, R(1, 2), Zero, Zero, Zero, One),
     SampledDisneyMaterial(WHITE, Zero, R(1, 2), One, One, Zero, One)}

\* a tile of `pixels` pixels, camera.num_samples and camera.bounce_limit
InitArena ==
    /\ \E pixels \in 1..2, num_samples \in 1..2, bounce_limit \in 1..2 :
          harness = [pixels |-> pixels, num_samples |-> num_samples,
                     bounce_limit |-> bounce_limit,
                     pixel |-> 0, sample |-> 0, bounce_count |-> 0,
                     at |-> "next_tile", arena |-> <<>>, arena_at_call |-> <<>>]
    /\ lsample = Idle /\ tiler = Idle
    /\ dist = Idle /\ dsample = NoSample /\ ph = NoHeuristic
    /\ hit = Idle /\ bsdf = Idle /\ bcall = NoCall
    /\ pc = Idle /\ bounce_count = 0 /\ radiance = Idle /\ beta = Idle
    /\ specular_bounce = FALSE /\ scene = Idle /\ last = Idle
    /\ ray = Idle /\ shape_hits = Idle /\ nearest = Idle /\ intersections = 0

\* tile.next_tile() yields a pixel: let arena = Bump::new()
PixelStart ==
    /\ harness.at = "next_tile"
    /\ harness.pixel < harness.pixels
    /\ harness' = [harness EXCEPT !.at = "samples", !.sample = 0, !.arena = <<>>]
    /\ UNCHANGED <<lsample, tiler, distVars, ph, bsdfVars, pathVars>>

\* one iteration of `for _ in 0..num_samples` up to the call
\* ray_color(&ray, &scene, &arena)
SampleStart ==
    /\ harness.at = "samples"
    /\ harness.sample < harness.num_samples
    /\ harness' = [harness EXCEPT !.at = "ray_color", !.bounce_count = 0,
                                  !.arena_at_call = harness.arena]
    /\ UNCHANGED <<lsample, tiler, distVars, ph, bsdfVars, pathVars>>

\* a bounce of ray_color that hits a surface: compute_scattering allocates
\* the terms of the BSDF from the arena
BounceAlloc ==
    /\ harness.at = "ray_color"
    /\ harness.bounce_count < harness.bounce_limit
    /\ \E frame \in ShadingFrames, material \in ArenaMaterials :
         LET b == DisneyMaterial_compute_scattering(Intersection(frame, material), TRUE)
         IN  harness' = [harness EXCEPT
                           !.bounce_count = @ + 1,
                           !.arena = @ \o [k \in 1..Len(b.bxdfs) |->
                                              [pixel |-> harness.pixel,
                                               sample |-> harness.sample,
                                               type |-> b.bxdfs[k].type]]]
    /\ UNCHANGED <<lsample, tiler, distVars, ph, bsdfVars, pathVars>>

\* ray_color returns (miss, light hit, absorption, roulette or bounce limit)
\* and the sample is accumulated
SampleEnd ==
    /\ harness.at = "ray_color"
    /\ harness' = [harness EXCEPT !.at = "samples", !.sample = @ + 1]
    /\ UNCHANGED <<lsample, tiler, distVars, ph, bsdfVars, pathVars>>

\* the pixel is written and `arena` goes out of scope
PixelEnd ==
    /\ harness.at = "samples"
    /\ harness.sample = harness.num_samples
    /\ harness' = [harness EXCEPT !.at = "next_tile", !.pixel = @ + 1, !.arena = <<>>]
    /\ UNCHANGED <<lsample, tiler, distVars, ph, bsdfVars, pathVars>>

NextArena == PixelStart \/ SampleStart \/ BounceAlloc \/ SampleEnd \/ PixelEnd

SpecArena == InitArena /\ [][NextArena]_vars

\* C27: at the start of every ray_color call the arena holds no term of an
\* earlier sample, and the arena never holds more than 3 terms per bounce
\* times bounce_limit.
C27_ArenaResetPerSample ==
    harness.at = "ray_color" =>
        /\ harness.arena_at_call = <<>>
        /\ Len(harness.arena) <= 3 * harness.bounce_limit

\* ------------------------------------------------------------------------
\* Scene::intersect on ray/shape geometry
\* ------------------------------------------------------------------------
\* T_MIN = 0.001: the classification of the ray parameter t
Classify(t, inside) ==
    IF RLt(t, Zero) THEN [tag |-> "Miss", distance |-> Zero]
    ELSE IF RLt(t, R(1, 1000)) THEN [tag |-> "Ignored", distance |-> Zero]
    ELSE IF ~inside THEN [tag |-> "Miss", distance |-> Zero]
    ELSE [tag |-> "Hit", distance |-> t]

\* Shape::Sphere: t = (-h - sqrt(h*h - a*c)) / a
Sphere_intersect(radius, r, translate) ==
    LET oc == VAdd(r.origin, VNeg(translate))
        a == VDot(r.direction, r.direction)
        h == VDot(oc, r.direction)
        c == RSub(VDot(oc, oc), RMul(radius, radius))
        discriminant == RSub(RMul(h, h), RMul(a, c))
    IN  IF RLt(discriminant, Zero) THEN [tag |-> "Miss", distance |-> Zero]
        ELSE Classify(RDiv(RSub(RNeg(h), RSqrt(discriminant)), a), TRUE)

\* Shape::Rectangle with the identity rotation: o = origin - translate,
\* l = origin + direction, the local ray is Ray::new(o, l - o)
Rectangle_intersect(width, height, r, translate) ==
    LET o == VAdd(r.origin, VNeg(translate))
        l == VAdd(r.origin, r.direction)
        d == Ray_new(VAdd(l, VNeg(o))).direction
        t == RDiv(o[3], RNeg(d[3]))
        x == RAdd(o[1], RMul(t, d[1]))
        y == RAdd(o[2], RMul(t, d[2]))
        x1 == RDiv(width, I(2))
        y1 == RDiv(height, I(2))
    IN  Classify(t, ~(RLt(x, RNeg(x1)) \/ RGt(x, x1) \/ RLt(y, RNeg(y1)) \/ RGt(y, y1)))

ShapeGeometry(s, r) ==
    IF s.shape = "Sphere" THEN Sphere_intersect(s.radius, r, s.translate)
    ELSE IF s.shape = "Rectangle" THEN Rectangle_intersect(s.width, s.height, r, s.translate)
    ELSE [tag |-> "Miss", distance |-> Zero]

\* rectangles and spheres on the z axis
GeometryShapes ==
    {[shape |-> "Rectangle", width |-> I(2), height |-> I(2), radius |-> Zero,
      translate |-> vec3(Zero, Zero, I(tz))] : tz \in {-2, -1, 0, 1}}
    \cup
    {[shape |-> "Sphere", width |-> Zero, height |-> Zero, radius |-> One,
      translate |-> vec3(Zero, Zero, I(cz))] : cz \in {-4, -3, -1}}

GeometryObject(s) ==
    [shape |-> s.shape, width |-> s.width, height |-> s.height, radius |-> s.radius,
     translate |-> s.translate,
     material |-> SampledDisneyMaterial(WHITE, Zero, R(1, 2), Zero, Zero, Zero, One)]

GeometryLight(s) ==
    [type |-> "Area", shape |-> s.shape, width |-> s.width, height |-> s.height,
     radius |-> s.radius, translate |-> s.translate, radiance |-> WHITE]

GeometryPoint ==
    [type |-> "Point", shape |-> "none", width |-> Zero, height |-> Zero,
     radius |-> Zero, translate |-> VZero, radiance |-> WHITE]

InitIntersect ==
    /\ \E n \in 0..2, m \in 0..1 :
       \E objs \in [1..n -> GeometryShapes],
          lts \in [1..m -> {GeometryLight(s) : s \in GeometryShapes} \cup {GeometryPoint}] :
          scene = [bounce_limit |-> 1,
                   objects |-> [k \in 1..n |-> GeometryObject(objs[k])],
                   lights |-> lts]
    /\ \E direction \in {vec3(Zero, Zero, I(-1)), vec3(Zero, Zero, One), vec3(One, Zero, Zero)} :
          ray = [origin |-> VZero, direction |-> direction]
    /\ pc = "intersect" /\ shape_hits = Idle /\ nearest = Idle /\ intersections = 0
    /\ bounce_count = 0 /\ radiance = Idle /\ beta = Idle
    /\ specular_bounce = FALSE /\ last = Idle
    /\ dist = Idle /\ dsample = NoSample /\ ph = NoHeuristic
    /\ hit = Idle /\ bsdf = Idle /\ bcall = NoCall
    /\ lsample = Idle /\ tiler = Idle /\ harness = Idle

\* what Shape::intersect reports for every shape of the scene, objects first
GeometryOutcomes(sc, r) ==
    [k \in 1..ShapeCount(sc) |->
        IF k <= Len(sc.objects) THEN ShapeGeometry(sc.objects[k], r)
        ELSE ShapeGeometry(sc.lights[k - Len(sc.objects)], r)]

\* scene.intersect(&ray)
SceneIntersect ==
    /\ pc = "intersect"
    /\ shape_hits' = GeometryOutcomes(scene, ray)
    /\ nearest' = Scene_intersect(scene, GeometryOutcomes(scene, ray))
    /\ intersections' = intersections + 1
    /\ pc' = "done"
    /\ UNCHANGED <<bounce_count, radiance, beta, specular_bounce, scene, last, ray,
                   distVars, ph, renderVars, bsdfVars>>

SpecIntersect == InitIntersect /\ [][SceneIntersect]_vars

Reversed(q) == [k \in 1..Len(q) |-> q[Len(q) + 1 - k]]

ReorderedScene == [scene EXCEPT !.objects = Reversed(@), !.lights = Reversed(@)]

HitShapes == {k \in DOMAIN shape_hits : shape_hits[k].tag = "Hit"}

DistinctHitDistances ==
    \A j, k \in HitShapes : j # k => shape_hits[j].distance # shape_hits[k].distance

IntersectContract ==
    /\ nearest.tag = "Ignored" <=> \E k \in DOMAIN shape_hits : shape_hits[k].tag = "Ignored"
    /\ nearest.tag # "Ignored" =>
          /\ nearest.tag = "Miss" <=> HitShapes = {}
          /\ \A k \in HitShapes : RLe(nearest.distance, shape_hits[k].distance)
          /\ nearest.tag = "Hit" =>
                \E k \in HitShapes : /\ k <= Len(scene.objects)
                                     /\ shape_hits[k].distance = nearest.distance
          /\ nearest.tag = "HitLight" =>
                \E k \in HitShapes : /\ k > Len(scene.objects)
                                     /\ nearest.light = k - Len(scene.objects)
                                     /\ shape_hits[k].distance = nearest.distance
    /\ DistinctHitDistances =>
          LET other == Scene_intersect(ReorderedScene, GeometryOutcomes(ReorderedScene, ray))
          IN  other.tag = nearest.tag /\ other.distance = nearest.distance
    /\ nearest.tag \in {"Hit", "HitLight"} => RLe(R(1, 1000), nearest.distance)

\* C30: Scene::intersect is Ignored iff some shape reports Ignored;
\* otherwise it is the hit of minimum distance (Hit for an object, HitLight
\* for an area light) or Miss; for distinct hit distances the result does
\* not depend on the order of the shapes; a returned hit is at least 0.001
\* away.
C30_IntersectNearestOrderIndependent == pc = "done" => IntersectContract

====
